---- MODULE Spec2Model ----
(***************************************************************************)
(* A model of the jerm-tui interactive session engine: the modal key       *)
(* handlers of src/main.rs, the session state of src/app.rs, the directory *)
(* browser of src/navigation/directory.rs, the bookmark index of           *)
(* src/shortcuts/manager.rs and the command classifier of                  *)
(* src/shell/parser.rs.                                                    *)
(*                                                                         *)
(* Text is a sequence of characters, each character a one-character        *)
(* string.  A path is the sequence of its components as Rust's Path sees   *)
(* them, each component a text: <<>> is the empty path, << <<"/">> >> the  *)
(* root and << <<"/">>, <<"a">> >> is /a.                                  *)
(***************************************************************************)
EXTENDS Integers, Sequences, FiniteSets, TLC

VARIABLES
    mode,                     \* App.mode
    current_dir,              \* App.current_dir
    history,                  \* App.history
    history_index,            \* App.history_index (None or an index from 0)
    input,                    \* App.input, as its characters
    cursor_pos,               \* App.cursor_pos
    output,                   \* App.output, the scrollback
    nav,                      \* App.navigation_state
    shortcuts,                \* App.shortcuts.data.shortcuts
    selected_shortcut_index,  \* App.selected_shortcut_index
    should_quit,              \* App.should_quit
    now,                      \* the wall clock read by Utc::now()
    list_height,              \* rows the navigator view gives the list
    dirs,                     \* the directories that exist on disk
    git_status,               \* App.git_status
    pc,                       \* position in run_app's loop
    pending,                  \* key events typed ahead of event::read
    git_tx,                   \* messages sent to the worker, not yet received
    git_rx,                   \* messages the worker sent to App.git_rx
    worker,                   \* the thread of spawn_git_worker
    last_git_poll,            \* App.last_git_poll
    frame                     \* what render_terminal drew last

vars == <<mode, current_dir, history, history_index, input, cursor_pos,
          output, nav, shortcuts, selected_shortcut_index, should_quit,
          now, list_height, dirs, git_status, pc, pending,
          git_tx, git_rx, worker, last_git_poll, frame>>

\* Option<T>: None is the empty sequence, Some(x) the one-element sequence
None == <<>>
Some(x) == <<x>>
Unwrap(o) == o[1]

----------------------------------------------------------------------------
(* Bounds of the model.                                                    *)

\* Lines of scrollback a session may reach
MaxOut == 2

----------------------------------------------------------------------------
(* Text.                                                                   *)

RECURSIVE Concat(_)
Concat(ss) == IF ss = <<>> THEN <<>> ELSE Head(ss) \o Concat(Tail(ss))

\* UTF-8 length of a character: the model's alphabet has a two-byte letter,
\* a two-byte combining mark and a three-byte East-Asian character.
Utf8Len(c) ==
    IF c \in {"é", "U+0301"} THEN 2
    ELSE IF c = "宽" THEN 3
    ELSE 1

RECURSIVE ByteLen(_)
\* str::len(): the length in bytes
ByteLen(s) == IF s = <<>> THEN 0 ELSE Utf8Len(Head(s)) + ByteLen(Tail(s))

\* Byte offsets at which a character of s starts, and its end:
\* str::is_char_boundary
IsCharBoundary(s, b) ==
    \E k \in 0..Len(s) : ByteLen(SubSeq(s, 1, k)) = b

\* Number of whole characters before the char boundary b
CharsBefore(s, b) ==
    CHOOSE k \in 0..Len(s) : ByteLen(SubSeq(s, 1, k)) = b

IsWhitespace(c) == c \in {" ", "\t"}

RECURSIVE TrimStart(_)
TrimStart(s) ==
    IF s # <<>> /\ IsWhitespace(Head(s)) THEN TrimStart(Tail(s)) ELSE s

RECURSIVE TrimEnd(_)
TrimEnd(s) ==
    IF s # <<>> /\ IsWhitespace(s[Len(s)])
        THEN TrimEnd(SubSeq(s, 1, Len(s) - 1))
        ELSE s

\* str::trim
Trim(s) == TrimEnd(TrimStart(s))

\* char::to_lowercase on the letters the model's file names use
LowerChar(c) ==
    CASE c = "A" -> "a"
      [] c = "B" -> "b"
      [] c = "C" -> "c"
      [] OTHER -> c

ToLowercase(s) == [i \in 1..Len(s) |-> LowerChar(s[i])]

\* Code points of the characters that occur in file names
Ord(c) ==
    CASE c = "." -> 46
      [] c = "A" -> 65
      [] c = "B" -> 66
      [] c = "C" -> 67
      [] c = "a" -> 97
      [] c = "b" -> 98
      [] c = "c" -> 99
      [] c = "f" -> 102
      [] c = "h" -> 104
      [] c = "z" -> 122
      [] OTHER -> 0

RECURSIVE StrLess(_, _)
\* Ord for String: lexicographic by code point
StrLess(s, t) ==
    IF t = <<>> THEN FALSE
    ELSE IF s = <<>> THEN TRUE
    ELSE IF Ord(Head(s)) # Ord(Head(t)) THEN Ord(Head(s)) < Ord(Head(t))
    ELSE StrLess(Tail(s), Tail(t))

\* The literal texts of the program
CD_WORD == <<"c", "d">>
DASH_LIST == <<"-", "l", "i", "s", "t">>
DASHDASH_LIST == <<"-", "-", "l", "i", "s", "t">>
CLEAR_WORD == <<"c", "l", "e", "a", "r">>
EXIT_WORD == <<"e", "x", "i", "t">>
QUIT_WORD == <<"q", "u", "i", "t">>
JERM_WORD == <<"j", "e", "r", "m">>
SAVE_WORD == <<"s", "a", "v", "e">>
GOTO_WORD == <<"g", "o", "t", "o">>
CD_PREFIX == <<"c", "d", " ">>
CD_ERR_PREFIX == <<"c", "d", ":", " ">>
ERROR_PREFIX == <<"E", "r", "r", "o", "r", ":", " ">>
NO_LONGER_EXISTS == <<" ", "n", "o", " ", "l", "o", "n", "g", "e", "r", " ", "e", "x", "i", "s", "t", "s">>
SHORTCUT_SAVED == <<"S", "h", "o", "r", "t", "c", "u", "t", " ", "s", "a", "v", "e", "d", ":", " ">>
CTRL_C_MARK == <<"^", "C">>
PROMPT_END == <<"$", " ">>
DIR_NOT_FOUND == <<"D", "i", "r", "e", "c", "t", "o", "r", "y", " ", "n", "o", "t", " ", "f", "o", "u", "n", "d", ":", " ">>
NOT_A_DIR == <<"N", "o", "t", " ", "a", " ", "d", "i", "r", "e", "c", "t", "o", "r", "y", ":", " ">>
INVALID_PATH == <<"I", "n", "v", "a", "l", "i", "d", " ", "p", "a", "t", "h", ":", " ">>
CD_DASH_TODO == <<"c", "d", " ", "-", " ", "n", "o", "t", " ", "y", "e", "t", " ", "i", "m", "p", "l", "e", "m", "e", "n", "t", "e", "d">>
EXEC_FAILED == <<"F", "a", "i", "l", "e", "d", " ", "t", "o", " ", "e", "x", "e", "c", "u", "t", "e", " ", "c", "o", "m", "m", "a", "n", "d", ":", " ">>
\* Texts the environment supplies: an operating system error, a command's output
OS_ERROR == <<"E", "N", "O", "E", "N", "T">>
OUT_LINE == <<"o", "u", "t">>

StartsWith(s, p) == Len(s) >= Len(p) /\ SubSeq(s, 1, Len(p)) = p

----------------------------------------------------------------------------
(* Paths and the file system the session runs on.                          *)

RootDir == <<"/">>
Root == <<RootDir>>

\* Path::parent: None for the root and for the empty path
HasParent(p) == Len(p) >= 1 /\ p # Root
Parent(p) == SubSeq(p, 1, Len(p) - 1)

RECURSIVE JoinNames(_)
JoinNames(ns) ==
    IF ns = <<>> THEN <<>>
    ELSE IF Len(ns) = 1 THEN Head(ns)
    ELSE Head(ns) \o <<"/">> \o JoinNames(Tail(ns))

\* Path::display
Display(p) ==
    IF p = <<>> THEN <<>>
    ELSE IF Head(p) = RootDir THEN <<"/">> \o JoinNames(Tail(p))
    ELSE JoinNames(p)

DirA == <<RootDir, <<"a">>>>
DirAB == <<RootDir, <<"a">>, <<"b">>>>
DirAC == <<RootDir, <<"a">>, <<"C">>>>
DirH == <<RootDir, <<".", "h">>>>
DirZ == <<RootDir, <<"z">>>>
FileF == <<RootDir, <<"f">>>>

\* The file systems a session may run on: a tree with nested, hidden and
\* mixed-case directories, and a root with no visible subdirectory
FullTree == {Root, DirA, DirAB, DirAC, DirH}
BareTree == {Root, DirH}
Trees == {FullTree, BareTree}
\* A root with two visible subdirectories
WideTree == {Root, DirA, DirAB, DirZ}
Files == {FileF}

\* Path::is_dir and Path::exists
IsDir(p) == p \in dirs
Exists(p) == p \in dirs \cup Files

\* What fs::read_dir yields for a directory, in no particular order
Children(p) == {q \in dirs \cup Files : Len(q) = Len(p) + 1 /\ Parent(q) = p}

\* dirs::home_dir
Home == DirA

FileName(p) == p[Len(p)]

----------------------------------------------------------------------------
(* The directory browser: src/navigation/directory.rs.                     *)

\* One entry per immediate subdirectory that is not hidden
ListedDirs(p) ==
    {[name |-> FileName(q), path |-> q, is_dir |-> TRUE] :
        q \in {c \in Children(p) : IsDir(c) /\ Head(FileName(c)) # "."}}

\* sort_by on the lower-cased names: a stable sort of read_dir's arbitrary
\* order, so any arrangement in which no entry precedes one with a strictly
\* smaller key
SortedByLowerName(es) ==
    {s \in [1..Cardinality(es) -> es] :
        /\ \A i, j \in 1..Cardinality(es) : i # j => s[i] # s[j]
        /\ \A i, j \in 1..Cardinality(es) :
              i < j => ~StrLess(ToLowercase(s[j].name), ToLowercase(s[i].name))}

\* A parent entry that points at the directory it is listed in
ParentEntry_self(p) ==
    IF HasParent(p)
        THEN <<[name |-> <<".", ".">>, path |-> p, is_dir |-> TRUE]>>
        ELSE <<>>

\* The ".." entry refresh_entries puts first, unless p is the root
ParentEntry(p) ==
    IF HasParent(p)
        THEN <<[name |-> <<".", ".">>, path |-> Parent(p), is_dir |-> TRUE]>>
        ELSE <<>>

\* The entry lists refresh_entries can build for directory p: read_dir fails
\* for a path that is no directory, and then only the parent entry is listed
Listings(p) ==
    IF IsDir(p)
        THEN {ParentEntry(p) \o d : d \in SortedByLowerName(ListedDirs(p))}
        ELSE {ParentEntry(p)}

SatSub(a, b) == IF a >= b THEN a - b ELSE 0

\* NavigationState::new
NewNav == [current_path |-> <<>>, entries |-> <<>>,
           selected_index |-> 0, scroll_offset |-> 0]

\* refresh_entries that puts the selection back on the first entry
refresh_entries_resets_selection(n, es) ==
    [n EXCEPT !.entries = es, !.selected_index = 0]

\* NavigationState::refresh_entries, given the listing es read from disk
refresh_entries(n, es) ==
    [n EXCEPT !.entries = es,
              !.selected_index =
                  IF n.selected_index >= Len(es)
                      THEN SatSub(Len(es), 1)
                      ELSE n.selected_index]

\* start_navigation without the reset of the selection
start_navigation_keeps_selection(n, path, es) ==
    refresh_entries([n EXCEPT !.current_path = path, !.scroll_offset = 0], es)

\* NavigationState::start_navigation
start_navigation(n, path, es) ==
    refresh_entries([n EXCEPT !.current_path = path,
                              !.selected_index = 0,
                              !.scroll_offset = 0], es)

\* NavigationState::move_up
move_up(n) ==
    IF n.selected_index > 0
        THEN [n EXCEPT !.selected_index = n.selected_index - 1,
                       !.scroll_offset =
                           IF n.selected_index - 1 < n.scroll_offset
                               THEN n.selected_index - 1
                               ELSE n.scroll_offset]
        ELSE n

\* move_down that does not stop at the last entry
move_down_unbounded(n) == [n EXCEPT !.selected_index = n.selected_index + 1]

\* NavigationState::move_down
move_down(n) ==
    IF n.selected_index < SatSub(Len(n.entries), 1)
        THEN [n EXCEPT !.selected_index = n.selected_index + 1]
        ELSE n

\* adjust_scroll that only scrolls back up to the selection
adjust_scroll_upwards(n, visible_height) ==
    IF n.selected_index < n.scroll_offset
        THEN [n EXCEPT !.scroll_offset = n.selected_index]
        ELSE n

\* adjust_scroll evaluates visible_height - 1 in usize: with no visible row
\* and the selection at or below the scroll offset the subtraction
\* underflows
adjust_scroll_underflows(n, visible_height) ==
    /\ visible_height = 0
    /\ n.selected_index >= n.scroll_offset + visible_height

\* NavigationState::adjust_scroll.  Where visible_height - 1 underflows
\* this is the build without overflow checks: the difference wraps to
\* usize::MAX, and the saturating subtraction from the selection gives 0
adjust_scroll(n, visible_height) ==
    IF n.selected_index >= n.scroll_offset + visible_height
        THEN [n EXCEPT !.scroll_offset =
                           IF visible_height = 0 THEN 0
                           ELSE SatSub(n.selected_index, visible_height - 1)]
    ELSE IF n.selected_index < n.scroll_offset
        THEN [n EXCEPT !.scroll_offset = n.selected_index]
    ELSE n

\* The entry under the selection: entries.get(selected_index)
HasSelected(n) == n.selected_index < Len(n.entries)
Selected(n) == n.entries[n.selected_index + 1]

\* NavigationState::enter_selected descends only into a directory entry that
\* is not the parent entry
CanEnter(n) ==
    HasSelected(n) /\ Selected(n).is_dir /\ Selected(n).name # <<".", ".">>

\* The directory enter_selected and go_up re-open, and the browser after
\* re-opening it with listing es
EnterTarget(n) == Selected(n).path
reopen(n, path, es) ==
    refresh_entries([n EXCEPT !.current_path = path,
                              !.selected_index = 0,
                              !.scroll_offset = 0], es)

\* get_selected_path answering with the directory being browsed
get_selected_path_browsed(n) ==
    IF HasSelected(n) THEN Some(n.current_path) ELSE None

\* NavigationState::get_selected_path
get_selected_path(n) == IF HasSelected(n) THEN Some(Selected(n).path) ELSE None

----------------------------------------------------------------------------
(* The bookmark index: src/shortcuts/manager.rs, src/shortcuts/storage.rs. *)

\* Shortcut::new at time t
NewShortcut(path, t) == [path |-> path, last_accessed |-> t, created_at |-> t]

\* A touch that leaves the access time as it was
touch_keeps_time(s, t) == s

\* Shortcut::touch at time t
touch(s, t) == [s EXCEPT !.last_accessed = t]

\* A sort that puts the oldest access first
InsertByRecency_oldest_first(r, x) ==
    LET k == Cardinality({i \in 1..Len(r) : r[i].last_accessed <= x.last_accessed})
    IN  SubSeq(r, 1, k) \o <<x>> \o SubSeq(r, k + 1, Len(r))

\* Where the stable sort puts x in the already sorted r: behind every entry
\* accessed at the same time or later
InsertByRecency(r, x) ==
    LET k == Cardinality({i \in 1..Len(r) : r[i].last_accessed >= x.last_accessed})
    IN  SubSeq(r, 1, k) \o <<x>> \o SubSeq(r, k + 1, Len(r))

RECURSIVE SortByRecency(_, _)
SortByRecency(r, rest) ==
    IF rest = <<>> THEN r
    ELSE SortByRecency(InsertByRecency(r, Head(rest)), Tail(rest))

\* ShortcutManager::get_shortcuts
get_shortcuts(sc) == SortByRecency(<<>>, sc)

\* The slots Ctrl+1 .. Ctrl+9 address
MaxSlot == 9

\* get_shortcut without the limit of nine slots
get_shortcut_unlimited(sc, index) ==
    IF index = 0 THEN None
    ELSE IF index - 1 < Len(sc) THEN Some(get_shortcuts(sc)[index]) ELSE None

\* ShortcutManager::get_shortcut
get_shortcut(sc, index) ==
    IF index = 0 \/ index > MaxSlot THEN None
    ELSE IF index - 1 < Len(sc) THEN Some(get_shortcuts(sc)[index]) ELSE None

\* iter_mut().find(|s| s.path == path): the first bookmark of that path
FindShortcut(sc, path) ==
    IF \E i \in 1..Len(sc) : sc[i].path = path
        THEN CHOOSE i \in 1..Len(sc) :
                 /\ sc[i].path = path
                 /\ \A j \in 1..(i - 1) : sc[j].path # path
        ELSE 0

\* add_shortcut without the search for a bookmark of the same path
add_shortcut_always_appends(sc, path, t) == Append(sc, NewShortcut(path, t))

\* ShortcutManager::add_shortcut at time t
add_shortcut(sc, path, t) ==
    IF FindShortcut(sc, path) # 0
        THEN [sc EXCEPT ![FindShortcut(sc, path)] = touch(@, t)]
        ELSE Append(sc, NewShortcut(path, t))

\* touch_shortcut that leaves the access time as it was
touch_shortcut_forgets(sc, path, t) == sc

\* ShortcutManager::touch_shortcut at time t
touch_shortcut(sc, path, t) ==
    IF FindShortcut(sc, path) # 0
        THEN [sc EXCEPT ![FindShortcut(sc, path)] = touch(@, t)]
        ELSE sc

\* ShortcutManager::is_empty
is_empty(sc) == sc = <<>>

----------------------------------------------------------------------------
(* The command classifier: src/shell/parser.rs.                            *)

\* Index of the first whitespace character of s, 0 if there is none
\* A split that never finds a blank
FirstWhitespace_none(s) == 0

FirstWhitespace(s) ==
    IF \E i \in 1..Len(s) : IsWhitespace(s[i])
        THEN CHOOSE i \in 1..Len(s) :
                 IsWhitespace(s[i]) /\ \A j \in 1..(i - 1) : ~IsWhitespace(s[j])
        ELSE 0

\* parse_command
parse_command(line) ==
    LET trimmed == Trim(line)
        w == FirstWhitespace(trimmed)
        command == IF w = 0 THEN trimmed ELSE SubSeq(trimmed, 1, w - 1)
        args == IF w = 0 THEN None
                ELSE Some(Trim(SubSeq(trimmed, w + 1, Len(trimmed))))
        Shell == [kind |-> "Shell", arg |-> trimmed]
    IN  IF trimmed = <<>> THEN [kind |-> "Empty", arg |-> None]
        ELSE IF command = CD_WORD THEN
            IF args = None THEN [kind |-> "Cd", arg |-> None]
            ELSE IF args \in {Some(DASH_LIST), Some(DASHDASH_LIST)}
                THEN [kind |-> "CdList", arg |-> None]
            ELSE [kind |-> "Cd", arg |-> args]
        ELSE IF command = CLEAR_WORD THEN [kind |-> "Clear", arg |-> None]
        ELSE IF command \in {EXIT_WORD, QUIT_WORD}
            THEN [kind |-> "Exit", arg |-> None]
        ELSE IF command = JERM_WORD THEN
            IF args = None THEN Shell
            ELSE IF args = Some(SAVE_WORD) THEN [kind |-> "JermSave", arg |-> None]
            ELSE IF args = Some(GOTO_WORD) THEN [kind |-> "JermGoto", arg |-> None]
            ELSE Shell
        ELSE Shell

----------------------------------------------------------------------------
(* Path resolution for cd: src/shell/executor.rs.                          *)

RECURSIVE SplitSlash(_, _)
\* The maximal runs of s between slashes, cur being the run in progress
SplitSlash(s, cur) ==
    IF s = <<>> THEN <<cur>>
    ELSE IF Head(s) = "/" THEN <<cur>> \o SplitSlash(Tail(s), <<>>)
    ELSE SplitSlash(Tail(s), Append(cur, Head(s)))

\* PathBuf::from / Path::join of a text: the non-empty components
Components(s) == SelectSeq(SplitSlash(s, <<>>), LAMBDA c : c # <<>>)

RECURSIVE Walk(_, _)
\* fs::canonicalize from directory p along components cs: None when a
\* component is missing or is looked up in something that is no directory
Walk(p, cs) ==
    IF cs = <<>> THEN Some(p)
    ELSE IF ~IsDir(p) THEN None
    ELSE IF Head(cs) = <<".">> THEN Walk(p, Tail(cs))
    ELSE IF Head(cs) = <<".", ".">>
        THEN Walk(IF HasParent(p) THEN Parent(p) ELSE p, Tail(cs))
    ELSE IF Exists(Append(p, Head(cs))) THEN Walk(Append(p, Head(cs)), Tail(cs))
    ELSE None

Ok(p) == [ok |-> TRUE, val |-> p]
Err(e) == [ok |-> FALSE, val |-> e]

\* resolve_cd_path without the is_dir check on the canonical path
resolve_cd_path_any_entry(path, cur) ==
    LET joined == IF StartsWith(path, <<"~">>) THEN SubSeq(path, 3, Len(path))
                  ELSE path
        start == IF StartsWith(joined, <<"/">>) THEN Root
                 ELSE IF StartsWith(path, <<"~">>) THEN Home
                 ELSE cur
        canonical == IF Exists(start) THEN Walk(start, Components(joined))
                     ELSE None
    IN  IF path = <<"-">> THEN Err(INVALID_PATH \o CD_DASH_TODO)
        ELSE IF canonical = None THEN Err(DIR_NOT_FOUND \o path)
        ELSE Ok(Unwrap(canonical))

\* resolve_cd_path: Ok(canonical path) or Err(the error's display text)
resolve_cd_path(path, cur) ==
    LET tilde == StartsWith(path, <<"~">>)
        \* what follows "~/" (the code skips two bytes)
        tail == SubSeq(path, 3, Len(path))
        joined == IF tilde THEN tail ELSE path
        \* joining an absolute path replaces the base
        start == IF StartsWith(joined, <<"/">>) THEN Root
                 ELSE IF tilde THEN Home
                 ELSE cur
        canonical == IF Exists(start) THEN Walk(start, Components(joined))
                     ELSE None
    IN  IF ~tilde /\ ~StartsWith(path, <<"/">>) /\ path = <<"-">>
            THEN Err(INVALID_PATH \o CD_DASH_TODO)
        ELSE IF canonical = None THEN Err(DIR_NOT_FOUND \o path)
        ELSE IF ~IsDir(Unwrap(canonical)) THEN Err(NOT_A_DIR \o path)
        ELSE Ok(Unwrap(canonical))

\* What execute_command can return: the lines of a finished command (stdout
\* then stderr), or the error of a shell that could not be started
ShellOutcomes == {Ok(<<>>), Ok(<<OUT_LINE>>), Err(EXEC_FAILED \o OS_ERROR)}

----------------------------------------------------------------------------
(* The status worker: src/git/status.rs.                                   *)

\* GitMessage
UpdateStatus(dir, with_fetch) ==
    [type |-> "UpdateStatus", dir |-> dir, with_fetch |-> with_fetch]
StatusUpdate(status) == [type |-> "StatusUpdate", status |-> status]
Shutdown == [type |-> "Shutdown"]
\* The end of the request channel: what recv finds, after every message
\* sent, once the Sender is dropped
Closed == [type |-> "Closed"]

\* The directories of the disk that are inside a work tree: /a is one
InRepo(d) == IsDir(d) /\ Len(d) >= 2 /\ d[2] = <<"a">>

\* The states git may report for the work tree: on a clean branch, and
\* detached with changes
RepoStates ==
    {[branch |-> <<"m">>, is_detached |-> FALSE, is_dirty |-> FALSE,
      ahead |-> 0, behind |-> 0],
     [branch |-> <<"1">>, is_detached |-> TRUE, is_dirty |-> TRUE,
      ahead |-> 0, behind |-> 0]}

\* A snapshot function that reports a state for every directory
get_git_status_anywhere(d) == {Some(s) : s \in RepoStates}

\* get_git_status(dir).ok(): the snapshots the worker may compute.  None
\* outside a work tree; inside one, a state of it, or None when one of the
\* git commands fails
get_git_status(d) ==
    IF ~InRepo(d) THEN {None}
    ELSE {Some(s) : s \in RepoStates} \cup {None}

\* The thread as spawn_git_worker starts it: blocked in recv.  req is the
\* request being served; fetched, received and replied record whether git
\* fetch has run for it, and how many requests were taken and answered;
\* last records the request answered last and the snapshot sent for it
NewWorker ==
    [pc |-> "recv", req |-> None, fetched |-> FALSE,
     received |-> 0, replied |-> 0, last |-> None]

\* worker_rx.recv() and the match on what it returns
WorkerRecv ==
    /\ worker.pc = "recv"
    /\ git_tx # <<>>
    /\ LET m == Head(git_tx)
       IN  /\ git_tx' = IF m = Closed THEN git_tx ELSE Tail(git_tx)
           /\ worker' =
                  CASE m.type = "UpdateStatus" ->
                         [worker EXCEPT !.pc = IF m.with_fetch THEN "fetch"
                                                ELSE "status",
                                        !.req = Some(m),
                                        !.fetched = FALSE,
                                        !.received = @ + 1]
                    [] m.type = "StatusUpdate" -> worker
                    [] OTHER -> [worker EXCEPT !.pc = "exited"]
    /\ UNCHANGED <<mode, current_dir, history, history_index, input,
                   cursor_pos, output, nav, shortcuts,
                   selected_shortcut_index, should_quit, now, list_height,
                   dirs, git_status,
                   last_git_poll, git_rx, pc, pending, frame>>

\* The UpdateStatus arm: git fetch when the request asks for it, its result
\* dropped; then the snapshot, sent as a StatusUpdate.  A send to a
\* receiver that is gone fails and the failure is dropped
WorkerServe ==
    /\ worker.pc \in {"fetch", "status"}
    /\ IF worker.pc = "fetch"
           THEN /\ worker' = [worker EXCEPT !.pc = "status", !.fetched = TRUE]
                /\ UNCHANGED git_rx
           ELSE \E status \in get_git_status(Unwrap(worker.req).dir) :
                    /\ git_rx' = IF pc = "dropped" THEN git_rx
                                  ELSE Append(git_rx, StatusUpdate(status))
                    /\ worker' = [worker EXCEPT
                                      !.pc = "recv", !.req = None,
                                      !.replied = @ + 1,
                                      !.last = Some([req |-> Unwrap(worker.req),
                                                     status |-> status])]
    /\ UNCHANGED <<mode, current_dir, history, history_index, input,
                   cursor_pos, output, nav, shortcuts,
                   selected_shortcut_index, should_quit, now, list_height,
                   dirs, git_status,
                   last_git_poll, git_tx, pc, pending, frame>>

----------------------------------------------------------------------------
(* Syntax highlighting of the input line: src/highlight/tokenizer.rs.      *)

\* Token::new that strips the blanks around the text
Token_trimmed(text, token_type) ==
    [text |-> Trim(text), token_type |-> token_type]

\* classify_word that does not look at the flag
classify_word_always_command(word, expect_command) ==
    IF StartsWith(word, <<"-">>) /\ Len(word) > 1
        THEN IF Tail(word) # <<"-">> /\ Head(Tail(word)) # "-"
                    /\ \A i \in 2..Len(word) :
                           word[i] \in {"0", "1", "2", "3", "4", "5", "6", "7",
                                        "8", "9", "."}
                 THEN "Number" ELSE "Flag"
    ELSE IF \E i \in 1..Len(word) : word[i] = "/" THEN "Path"
    ELSE IF \A i \in 1..Len(word) :
                word[i] \in {"0", "1", "2", "3", "4", "5", "6", "7", "8", "9",
                             "."}
        THEN "Number"
    ELSE "Command"

\* classify_word that takes every word with a leading - for a flag
classify_word_no_negative(word, expect_command) ==
    IF StartsWith(word, <<"-">>) /\ Len(word) > 1 THEN "Flag"
    ELSE IF \E i \in 1..Len(word) : word[i] = "/" THEN "Path"
    ELSE IF \A i \in 1..Len(word) :
                word[i] \in {"0", "1", "2", "3", "4", "5", "6", "7", "8", "9",
                             "."}
        THEN "Number"
    ELSE IF expect_command THEN "Command"
    ELSE "Text"

\* Token::new
Token(text, token_type) == [text |-> text, token_type |-> token_type]

\* Tokenizer::try_parse_operator on the text s, whose first character is
\* looked at: the operator read, or None
try_parse_operator(s) ==
    LET doubled == Len(s) >= 2 /\ s[2] = s[1]
    IN  IF s[1] \in {"|", "&", ">"}
            THEN Some(IF doubled THEN <<s[1], s[1]>> ELSE <<s[1]>>)
        ELSE IF s[1] \in {"<", ";"} THEN Some(<<s[1]>>)
        ELSE None

\* Tokenizer::parse_word: the characters up to the first blank, operator
\* character or quote
parse_word(s) ==
    LET stops == {i \in 1..Len(s) :
                     \/ IsWhitespace(s[i])
                     \/ s[i] \in {"|", "&", ">", "<", ";", "\"", "'"}}
        end == IF stops = {} THEN Len(s)
               ELSE (CHOOSE i \in stops : \A j \in stops : i <= j) - 1
    IN  SubSeq(s, 1, end)

AsciiDigits == {"0", "1", "2", "3", "4", "5", "6", "7", "8", "9"}
NumberChars(s) == \A i \in 1..Len(s) : s[i] \in AsciiDigits \cup {"."}

\* Tokenizer::classify_word
classify_word(word, expect_command) ==
    IF StartsWith(word, <<"-", "-">>) THEN "Flag"
    ELSE IF StartsWith(word, <<"-">>) /\ Len(word) > 1
        THEN IF NumberChars(Tail(word)) THEN "Number" ELSE "Flag"
    ELSE IF \/ \E i \in 1..Len(word) : word[i] = "/"
            \/ StartsWith(word, <<".", "/">>)
            \/ StartsWith(word, <<"~", "/">>)
        THEN "Path"
    ELSE IF NumberChars(word) /\ word # <<>> THEN "Number"
    ELSE IF expect_command THEN "Command"
    ELSE "Text"

RECURSIVE tokenize_from(_, _)
\* The loop of Tokenizer::tokenize on what is left of the input, s, with
\* the flag expect_command
tokenize_from(s, expect_command) ==
    IF s = <<>> THEN <<>>
    ELSE IF IsWhitespace(s[1])
        THEN LET ws == Len(s) - Len(TrimStart(s))
             IN  <<Token(SubSeq(s, 1, ws), "Whitespace")>>
                     \o tokenize_from(SubSeq(s, ws + 1, Len(s)), expect_command)
    ELSE IF try_parse_operator(s) # None
        THEN LET op == Unwrap(try_parse_operator(s))
                 is_redirect == op \in {<<">">>, <<">", ">">>, <<"<">>}
             IN  <<Token(op, "Operator")>>
                     \o tokenize_from(SubSeq(s, Len(op) + 1, Len(s)), ~is_redirect)
    ELSE IF s[1] \in {"\"", "'"}
        THEN LET closing == {i \in 2..Len(s) : s[i] = s[1]}
                 end == IF closing = {} THEN Len(s)
                        ELSE CHOOSE i \in closing : \A j \in closing : i <= j
             IN  <<Token(SubSeq(s, 1, end), "String")>>
                     \o tokenize_from(SubSeq(s, end + 1, Len(s)), FALSE)
    ELSE LET word == parse_word(s)
         IN  IF word = <<>> THEN tokenize_from(s, expect_command)
             ELSE <<Token(word, classify_word(word, expect_command))>>
                      \o tokenize_from(SubSeq(s, Len(word) + 1, Len(s)), FALSE)

\* Tokenizer::tokenize
tokenize(line) == tokenize_from(line, TRUE)

----------------------------------------------------------------------------
(* The terminal view: src/ui/terminal.rs.                                  *)

\* UnicodeWidthChar::width(ch).unwrap_or(0): two columns for an East-Asian
\* wide character, none for a combining mark (the combining acute accent
\* is written "U+0301" here), one otherwise
CharWidth(ch) ==
    IF ch = "宽" THEN 2
    ELSE IF ch = "U+0301" THEN 0
    ELSE 1

RECURSIVE wrap_from(_, _, _, _)
\* The loop of wrap_line over what is left of the line, s, with the row in
\* progress and its width: the rows pushed, the last row included
wrap_from(s, width, current_line, current_width) ==
    IF s = <<>> THEN <<current_line>>
    ELSE IF current_width + CharWidth(s[1]) > width
        THEN <<current_line>>
                 \o wrap_from(Tail(s), width, <<s[1]>>, CharWidth(s[1]))
    ELSE wrap_from(Tail(s), width, Append(current_line, s[1]),
                   current_width + CharWidth(s[1]))

\* A wrap_line that never starts a new row
wrap_line_unwrapped(line, width) == <<line>>

\* wrap_line
wrap_line(line, width) ==
    IF width = 0 THEN <<<<>>>> ELSE wrap_from(line, width, <<>>, 0)

RECURSIVE StrWidth(_)
\* UnicodeWidthStr::width: the columns a text takes
StrWidth(s) == IF s = <<>> THEN 0 ELSE CharWidth(Head(s)) + StrWidth(Tail(s))

\* No frame drawn yet
NoFrame == [width |-> 0, height |-> 0, input |-> <<>>, cursor_pos |-> 0,
            rows |-> <<>>, input_line_start |-> 0, tokens |-> <<>>,
            scroll |-> 0, cursor_line_offset |-> 0, cursor_x_offset |-> 0,
            cursor_line_visible |-> 0, cursor_set |-> FALSE]

----------------------------------------------------------------------------
(* The session state: src/app.rs.                                          *)

Normal == "Normal"
NavigationList == "NavigationList"
ShortcutSelection == "ShortcutSelection"

DigitChar(d) == <<"0", "1", "2", "3", "4", "5", "6", "7", "8", "9">>[d + 1]

RECURSIVE Digits(_)
\* Display of an unsigned number
Digits(n) ==
    IF n < 10 THEN <<DigitChar(n)>>
    ELSE Digits(n \div 10) \o <<DigitChar(n % 10)>>

\* The repository part of App::prompt_spans
GitPart(g) ==
    IF g = None THEN <<>>
    ELSE IF Unwrap(g).branch = <<>> THEN <<>>
    ELSE Unwrap(g).branch
         \o (IF Unwrap(g).is_dirty THEN <<"*">> ELSE <<>>)
         \o (IF Unwrap(g).ahead > 0
                THEN <<" ", "↑">> \o Digits(Unwrap(g).ahead) ELSE <<>>)
         \o (IF Unwrap(g).behind > 0
                THEN <<" ", "↓">> \o Digits(Unwrap(g).behind) ELSE <<>>)
         \o <<" ">>

\* App::prompt_string: the directory with the home prefix replaced by ~
prompt_string(dir, g) ==
    LET d == Display(dir)
        h == Display(Home)
        display_dir == IF StartsWith(d, h)
                           THEN <<"~">> \o SubSeq(d, Len(h) + 1, Len(d))
                           ELSE d
    IN  display_dir \o <<" ">> \o GitPart(g) \o PROMPT_END

\* A prompt that leaves the working directory out
prompt_without_directory == GitPart(git_status) \o PROMPT_END

prompt == prompt_string(current_dir, git_status)

\* add_to_history that also keeps a repeat of the last command
add_to_history_repeats(h, command) ==
    IF Trim(command) # <<>> THEN Append(h, command) ELSE h

\* App::add_to_history
add_to_history(h, command) ==
    IF Trim(command) # <<>> /\ (h = <<>> \/ h[Len(h)] # command)
        THEN Append(h, command)
        ELSE h

\* event::read takes the oldest of the keys typed ahead; with none typed
\* ahead the key handled is the one pressed now
Read == pending' = IF pending = <<>> THEN pending ELSE Tail(pending)

\* The loop of run_app: a frame is drawn, then one key is read and handled;
\* only the navigator's frame changes state, so the other frames are not
\* steps of their own
AfterKey ==
    /\ pc' = IF should_quit' THEN "done"
             ELSE IF mode' = NavigationList THEN "draw"
             ELSE "key"
    /\ Read

AtKey(m) == pc = "key" /\ mode = m

editVars == <<input, cursor_pos, history_index>>
envVars == <<list_height, dirs, git_status, git_tx, git_rx, worker,
            last_git_poll, frame>>
bookVars == <<shortcuts, selected_shortcut_index, now>>

\* What a handler that only edits the input line leaves alone
EditFrame ==
    /\ UNCHANGED <<mode, current_dir, history, output, nav, bookVars,
                   should_quit, envVars>>
    /\ Read

----------------------------------------------------------------------------
(* Normal mode: handle_normal_mode of src/main.rs, and the App methods it  *)
(* calls.                                                                  *)

\* String::insert and String::remove accept a byte index on a character
\* boundary only
CanInsertAt(s, b) == IsCharBoundary(s, b)
CanRemoveAt(s, b) == b < ByteLen(s) /\ IsCharBoundary(s, b)

\* App::insert_char on the edit state e = [input, cursor_pos, ok]; ok turns
\* FALSE when String::insert panics
insert_char(e, c) ==
    IF ~e.ok THEN e
    ELSE IF CanInsertAt(e.input, e.cursor_pos)
        THEN [input |-> LET k == CharsBefore(e.input, e.cursor_pos)
                        IN  SubSeq(e.input, 1, k) \o <<c>>
                                \o SubSeq(e.input, k + 1, Len(e.input)),
              cursor_pos |-> e.cursor_pos + 1,
              ok |-> TRUE]
        ELSE [e EXCEPT !.ok = FALSE]

RECURSIVE insert_chars(_, _)
\* The key events Char(s[1]), Char(s[2]), ... handled one after the other
insert_chars(e, s) ==
    IF s = <<>> THEN e ELSE insert_chars(insert_char(e, Head(s)), Tail(s))

\* Char(c) events with no modifier or Shift, one for each character of s;
\* no frame drawn between them changes the state
KeyChars(s) ==
    /\ AtKey(Normal)
    /\ LET e == insert_chars([input |-> input, cursor_pos |-> cursor_pos,
                              ok |-> TRUE], s)
       IN  /\ input' = e.input
           /\ cursor_pos' = e.cursor_pos
           /\ pc' = IF e.ok THEN "key" ELSE "panicked"
    /\ UNCHANGED history_index
    /\ EditFrame

\* One Char(c) event
KeyChar(c) == KeyChars(<<c>>)

\* Backspace: App::delete_char
KeyBackspace ==
    /\ AtKey(Normal)
    /\ IF cursor_pos = 0
           THEN UNCHANGED <<input, cursor_pos, pc>>
       ELSE IF CanRemoveAt(input, cursor_pos - 1)
           THEN /\ cursor_pos' = cursor_pos - 1
                /\ input' = LET k == CharsBefore(input, cursor_pos - 1)
                            IN  SubSeq(input, 1, k)
                                    \o SubSeq(input, k + 2, Len(input))
                /\ pc' = "key"
           ELSE /\ cursor_pos' = cursor_pos - 1
                /\ pc' = "panicked"
                /\ UNCHANGED input
    /\ UNCHANGED history_index
    /\ EditFrame

\* Left: App::cursor_left
KeyLeft ==
    /\ AtKey(Normal)
    /\ cursor_pos' = SatSub(cursor_pos, 1)
    /\ UNCHANGED <<input, history_index, pc>>
    /\ EditFrame

\* Right: App::cursor_right
KeyRight ==
    /\ AtKey(Normal)
    /\ cursor_pos' = IF cursor_pos < ByteLen(input) THEN cursor_pos + 1
                     ELSE cursor_pos
    /\ UNCHANGED <<input, history_index, pc>>
    /\ EditFrame

\* Home and Ctrl+A: App::cursor_home
KeyHome ==
    /\ AtKey(Normal)
    /\ cursor_pos' = 0
    /\ UNCHANGED <<input, history_index, pc>>
    /\ EditFrame

\* End and Ctrl+E: App::cursor_end
KeyEnd ==
    /\ AtKey(Normal)
    /\ cursor_pos' = ByteLen(input)
    /\ UNCHANGED <<input, history_index, pc>>
    /\ EditFrame

\* Esc and Ctrl+U: App::clear_input
KeyClearInput ==
    /\ AtKey(Normal)
    /\ input' = <<>>
    /\ cursor_pos' = 0
    /\ history_index' = None
    /\ UNCHANGED pc
    /\ EditFrame

\* history_prev that goes from the oldest entry round to the newest
KeyUp_wraps ==
    /\ AtKey(Normal)
    /\ IF history = <<>>
           THEN UNCHANGED editVars
           ELSE LET new_index ==
                        IF history_index = None THEN SatSub(Len(history), 1)
                        ELSE IF Unwrap(history_index) = 0 THEN SatSub(Len(history), 1)
                        ELSE SatSub(Unwrap(history_index), 1)
                IN  /\ history_index' = Some(new_index)
                    /\ input' = history[new_index + 1]
                    /\ cursor_pos' = ByteLen(history[new_index + 1])
    /\ UNCHANGED pc
    /\ EditFrame

\* Up: App::history_prev
KeyUp ==
    /\ AtKey(Normal)
    /\ IF history = <<>>
           THEN UNCHANGED editVars
           ELSE LET new_index ==
                        IF history_index = None THEN SatSub(Len(history), 1)
                        ELSE IF Unwrap(history_index) = 0 THEN 0
                        ELSE SatSub(Unwrap(history_index), 1)
                IN  /\ history_index' = Some(new_index)
                    /\ input' = history[new_index + 1]
                    /\ cursor_pos' = ByteLen(history[new_index + 1])
    /\ UNCHANGED pc
    /\ EditFrame

\* history_next that ends the navigation one entry too late
KeyDown_past_newest ==
    /\ AtKey(Normal)
    /\ IF history_index = None
           THEN UNCHANGED editVars
       ELSE IF Unwrap(history_index) >= Len(history)
           THEN /\ history_index' = None
                /\ input' = <<>>
                /\ cursor_pos' = 0
           ELSE LET new_index == Unwrap(history_index) + 1
                IN  /\ history_index' = Some(new_index)
                    /\ input' = IF new_index < Len(history)
                                    THEN history[new_index + 1] ELSE <<>>
                    /\ cursor_pos' = ByteLen(input')
    /\ UNCHANGED pc
    /\ EditFrame

\* Down: App::history_next
KeyDown ==
    /\ AtKey(Normal)
    /\ IF history_index = None
           THEN UNCHANGED editVars
       ELSE IF Unwrap(history_index) >= SatSub(Len(history), 1)
           THEN /\ history_index' = None
                /\ input' = <<>>
                /\ cursor_pos' = 0
           ELSE LET new_index == Unwrap(history_index) + 1
                IN  /\ history_index' = Some(new_index)
                    /\ input' = history[new_index + 1]
                    /\ cursor_pos' = ByteLen(history[new_index + 1])
    /\ UNCHANGED pc
    /\ EditFrame

\* Ctrl+L
KeyCtrlL ==
    /\ AtKey(Normal)
    /\ output' = <<>>
    /\ UNCHANGED <<mode, current_dir, history, editVars, nav, bookVars,
                   should_quit, envVars>>
    /\ AfterKey

\* A Ctrl+C that asks to quit whatever the input line holds
KeyCtrlC_quits ==
    /\ AtKey(Normal)
    /\ should_quit' = TRUE
    /\ IF input = <<>>
           THEN UNCHANGED <<output, editVars>>
           ELSE /\ output' = Append(output, prompt \o input \o CTRL_C_MARK)
                /\ input' = <<>>
                /\ cursor_pos' = 0
                /\ history_index' = None
    /\ UNCHANGED <<mode, current_dir, history, nav, bookVars, envVars>>
    /\ AfterKey

\* Ctrl+C
KeyCtrlC ==
    /\ AtKey(Normal)
    /\ IF input = <<>>
           THEN /\ should_quit' = TRUE
                /\ UNCHANGED <<output, editVars>>
           ELSE /\ output' = Append(output, prompt \o input \o CTRL_C_MARK)
                /\ input' = <<>>
                /\ cursor_pos' = 0
                /\ history_index' = None
                /\ UNCHANGED should_quit
    /\ UNCHANGED <<mode, current_dir, history, nav, bookVars, envVars>>
    /\ AfterKey

\* Ctrl+D that quits whatever the input line holds
KeyCtrlD_always ==
    /\ AtKey(Normal)
    /\ should_quit' = TRUE
    /\ UNCHANGED <<mode, current_dir, history, editVars, output, nav,
                   bookVars, envVars>>
    /\ AfterKey

\* Ctrl+D
KeyCtrlD ==
    /\ AtKey(Normal)
    /\ should_quit' = (input = <<>> \/ should_quit)
    /\ UNCHANGED <<mode, current_dir, history, editVars, output, nav,
                   bookVars, envVars>>
    /\ AfterKey

\* Tab, and every key no arm matches
KeyIgnored ==
    /\ AtKey(Normal)
    /\ UNCHANGED <<editVars, pc>>
    /\ EditFrame

\* The Ctrl+<index> arm adopting the directory without touching the bookmark
ctrl_digit_effect_untouched(index) ==
    LET found == get_shortcut(shortcuts, index)
        path == Unwrap(found).path
    IN  IF found = None
            THEN [output |-> output, current_dir |-> current_dir,
                  shortcuts |-> shortcuts, touched |-> FALSE]
        ELSE IF IsDir(path)
            THEN [output |-> Append(output, CD_PREFIX \o Display(path)),
                  current_dir |-> path,
                  shortcuts |-> shortcuts, touched |-> FALSE]
        ELSE [output |-> Append(output,
                             ERROR_PREFIX \o Display(path) \o NO_LONGER_EXISTS),
              current_dir |-> current_dir,
              shortcuts |-> shortcuts, touched |-> FALSE]

\* What Ctrl+<index> does to scrollback, working directory and bookmarks
\* (src/main.rs, the first arm of handle_normal_mode); touched tells whether
\* the clock was read
ctrl_digit_effect(index) ==
    LET found == get_shortcut(shortcuts, index)
        path == Unwrap(found).path
    IN  IF found = None
            THEN [output |-> output, current_dir |-> current_dir,
                  shortcuts |-> shortcuts, touched |-> FALSE]
        ELSE IF IsDir(path)
            THEN [output |-> Append(output, CD_PREFIX \o Display(path)),
                  current_dir |-> path,
                  shortcuts |-> touch_shortcut(shortcuts, path, now),
                  touched |-> TRUE]
        ELSE [output |-> Append(output,
                             ERROR_PREFIX \o Display(path) \o NO_LONGER_EXISTS),
              current_dir |-> current_dir,
              shortcuts |-> shortcuts, touched |-> FALSE]

\* Ctrl+1 .. Ctrl+9
KeyCtrlDigit(index) ==
    /\ AtKey(Normal)
    /\ LET e == ctrl_digit_effect(index)
       IN  /\ output' = e.output
           /\ current_dir' = e.current_dir
           /\ shortcuts' = e.shortcuts
           /\ now' = IF e.touched THEN now + 1 ELSE now
    /\ UNCHANGED <<mode, history, editVars, nav, selected_shortcut_index,
                   should_quit, envVars>>
    /\ AfterKey

\* enter_goto_mode without the check for an empty bookmark index
enter_goto_mode_unchecked == ShortcutSelection

\* App::enter_goto_mode
enter_goto_mode_target == IF ~is_empty(shortcuts) THEN ShortcutSelection ELSE mode

\* Enter: execute_input.  The prompt and the line are echoed, the line goes
\* to the history, the input is cleared, and the parsed command is run
KeyEnter ==
    /\ AtKey(Normal)
    /\ LET line == input
           echoed == Append(output, prompt \o line)
           cmd == parse_command(line)
       IN  /\ history' = add_to_history(history, line)
           /\ input' = <<>>
           /\ cursor_pos' = 0
           /\ history_index' = None
           /\ CASE cmd.kind = "Empty" ->
                    /\ output' = echoed
                    /\ UNCHANGED <<mode, current_dir, nav, bookVars, should_quit>>
                [] cmd.kind = "Cd" ->
                    LET target == IF cmd.arg = None THEN <<"~">>
                                  ELSE Unwrap(cmd.arg)
                        r == resolve_cd_path(target, current_dir)
                    IN  /\ IF r.ok
                               THEN /\ current_dir' = r.val
                                    /\ output' = echoed
                               ELSE /\ output' = Append(echoed, CD_ERR_PREFIX \o r.val)
                                    /\ UNCHANGED current_dir
                        /\ UNCHANGED <<mode, nav, bookVars, should_quit>>
                [] cmd.kind = "CdList" ->
                    /\ output' = echoed
                    /\ mode' = NavigationList
                    /\ \E es \in Listings(current_dir) :
                           nav' = start_navigation(nav, current_dir, es)
                    /\ UNCHANGED <<current_dir, bookVars, should_quit>>
                [] cmd.kind = "Clear" ->
                    /\ output' = <<>>
                    /\ UNCHANGED <<mode, current_dir, nav, bookVars, should_quit>>
                [] cmd.kind = "Exit" ->
                    /\ output' = echoed
                    /\ should_quit' = TRUE
                    /\ UNCHANGED <<mode, current_dir, nav, bookVars>>
                [] cmd.kind = "JermSave" ->
                    /\ shortcuts' = add_shortcut(shortcuts, current_dir, now)
                    /\ now' = now + 1
                    /\ output' = Append(echoed,
                                        SHORTCUT_SAVED \o Display(current_dir))
                    /\ UNCHANGED <<mode, current_dir, nav,
                                   selected_shortcut_index, should_quit>>
                [] cmd.kind = "JermGoto" ->
                    /\ output' = echoed
                    /\ mode' = enter_goto_mode_target
                    /\ selected_shortcut_index' =
                           IF ~is_empty(shortcuts) THEN 0
                           ELSE selected_shortcut_index
                    /\ UNCHANGED <<current_dir, nav, shortcuts, now, should_quit>>
                [] cmd.kind = "Shell" ->
                    /\ \E result \in ShellOutcomes :
                           output' = IF result.ok
                                         THEN echoed \o result.val
                                         ELSE Append(echoed, ERROR_PREFIX \o result.val)
                    /\ UNCHANGED <<mode, current_dir, nav, bookVars, should_quit>>
    /\ UNCHANGED envVars
    /\ AfterKey

----------------------------------------------------------------------------
(* Navigation mode: handle_navigation_mode of src/main.rs.                 *)

NavFrame ==
    UNCHANGED <<mode, current_dir, history, editVars, output, bookVars,
                should_quit, envVars>>

\* Up
NavUp ==
    /\ AtKey(NavigationList)
    /\ nav' = move_up(nav)
    /\ NavFrame
    /\ AfterKey

\* Down
NavDown ==
    /\ AtKey(NavigationList)
    /\ nav' = move_down(nav)
    /\ NavFrame
    /\ AfterKey

\* Right: NavigationState::enter_selected
NavRight ==
    /\ AtKey(NavigationList)
    /\ IF CanEnter(nav)
           THEN \E es \in Listings(EnterTarget(nav)) :
                    nav' = reopen(nav, EnterTarget(nav), es)
           ELSE UNCHANGED nav
    /\ NavFrame
    /\ AfterKey

\* Left: NavigationState::go_up
NavLeft ==
    /\ AtKey(NavigationList)
    /\ IF HasParent(nav.current_path)
           THEN \E es \in Listings(Parent(nav.current_path)) :
                    nav' = reopen(nav, Parent(nav.current_path), es)
           ELSE UNCHANGED nav
    /\ NavFrame
    /\ AfterKey

\* A confirm that also records the cd line in the history
NavEnter_records ==
    /\ AtKey(NavigationList)
    /\ output' = IF get_selected_path(nav) # None
                     THEN Append(output,
                                 CD_PREFIX \o Display(Unwrap(get_selected_path(nav))))
                     ELSE output
    /\ current_dir' = IF get_selected_path(nav) # None
                          THEN Unwrap(get_selected_path(nav))
                          ELSE current_dir
    /\ history' = IF get_selected_path(nav) # None
                      THEN Append(history,
                                  CD_PREFIX \o Display(Unwrap(get_selected_path(nav))))
                      ELSE history
    /\ mode' = Normal
    /\ UNCHANGED <<editVars, nav, bookVars, should_quit, envVars>>
    /\ AfterKey

\* Enter: the cd line is recorded, then App::confirm_navigation
NavEnter ==
    /\ AtKey(NavigationList)
    /\ output' = IF get_selected_path(nav) # None
                     THEN Append(output,
                                 CD_PREFIX \o Display(Unwrap(get_selected_path(nav))))
                     ELSE output
    /\ current_dir' = IF get_selected_path(nav) # None
                          THEN Unwrap(get_selected_path(nav))
                          ELSE current_dir
    /\ mode' = Normal
    /\ UNCHANGED <<history, editVars, nav, bookVars, should_quit, envVars>>
    /\ AfterKey

\* An Esc arm that confirms instead of cancelling
NavEsc_confirms ==
    /\ AtKey(NavigationList)
    /\ output' = IF get_selected_path(nav) # None
                     THEN Append(output,
                                 CD_PREFIX \o Display(Unwrap(get_selected_path(nav))))
                     ELSE output
    /\ current_dir' = IF get_selected_path(nav) # None
                          THEN Unwrap(get_selected_path(nav))
                          ELSE current_dir
    /\ mode' = Normal
    /\ UNCHANGED <<history, editVars, nav, bookVars, should_quit, envVars>>
    /\ AfterKey

\* Esc: App::exit_navigation_mode
NavEsc ==
    /\ AtKey(NavigationList)
    /\ mode' = Normal
    /\ UNCHANGED <<current_dir, history, editVars, output, nav, bookVars,
                   should_quit, envVars>>
    /\ AfterKey

\* Any other key
NavIgnored ==
    /\ AtKey(NavigationList)
    /\ UNCHANGED <<mode, nav>>
    /\ NavFrame
    /\ AfterKey

\* draw_ui in navigation mode: render_navigator scrolls the list so that
\* the selection is inside its list_height rows.  A build with overflow
\* checks panics where adjust_scroll underflows, a build without them goes on
DrawNavigator ==
    /\ pc = "draw"
    /\ mode = NavigationList
    /\ \E checked \in (IF adjust_scroll_underflows(nav, list_height)
                            THEN BOOLEAN ELSE {FALSE}) :
           IF checked
               THEN pc' = "panicked" /\ UNCHANGED nav
               ELSE pc' = "key" /\ nav' = adjust_scroll(nav, list_height)
    /\ UNCHANGED pending
    /\ NavFrame

----------------------------------------------------------------------------
(* Bookmark selection mode: handle_goto_mode of src/main.rs.               *)

GotoFrame ==
    UNCHANGED <<current_dir, history, editVars, output, nav, shortcuts, now,
                should_quit, envVars>>

\* Up: App::goto_move_up
GotoUp ==
    /\ AtKey(ShortcutSelection)
    /\ selected_shortcut_index' =
           IF selected_shortcut_index > 0 THEN selected_shortcut_index - 1
           ELSE selected_shortcut_index
    /\ UNCHANGED mode
    /\ GotoFrame
    /\ AfterKey

Min(a, b) == IF a <= b THEN a ELSE b

\* goto_move_down that stops at the last bookmark only
GotoDown_uncapped ==
    /\ AtKey(ShortcutSelection)
    /\ selected_shortcut_index' =
           IF selected_shortcut_index < SatSub(Len(get_shortcuts(shortcuts)), 1)
               THEN selected_shortcut_index + 1
               ELSE selected_shortcut_index
    /\ UNCHANGED mode
    /\ GotoFrame
    /\ AfterKey

\* Down: App::goto_move_down
GotoDown ==
    /\ AtKey(ShortcutSelection)
    /\ LET max_index == Min(SatSub(Len(get_shortcuts(shortcuts)), 1), MaxSlot - 1)
       IN  selected_shortcut_index' =
               IF selected_shortcut_index < max_index
                   THEN selected_shortcut_index + 1
                   ELSE selected_shortcut_index
    /\ UNCHANGED mode
    /\ GotoFrame
    /\ AfterKey

\* What App::confirm_goto does to scrollback, working directory and
\* bookmarks when the highlighted index is selected (src/app.rs)
confirm_goto_effect(selected) ==
    LET found == get_shortcut(shortcuts, selected + 1)
        path == Unwrap(found).path
    IN  IF found = None
            THEN [output |-> output, current_dir |-> current_dir,
                  shortcuts |-> shortcuts, touched |-> FALSE]
        ELSE IF IsDir(path)
            THEN [output |-> Append(output, CD_PREFIX \o Display(path)),
                  current_dir |-> path,
                  shortcuts |-> touch_shortcut(shortcuts, path, now),
                  touched |-> TRUE]
        ELSE [output |-> Append(output,
                             ERROR_PREFIX \o Display(path) \o NO_LONGER_EXISTS),
              current_dir |-> current_dir,
              shortcuts |-> shortcuts, touched |-> FALSE]

\* Enter: App::confirm_goto
GotoEnter ==
    /\ AtKey(ShortcutSelection)
    /\ LET e == confirm_goto_effect(selected_shortcut_index)
       IN  /\ output' = e.output
           /\ current_dir' = e.current_dir
           /\ shortcuts' = e.shortcuts
           /\ now' = IF e.touched THEN now + 1 ELSE now
    /\ mode' = Normal
    /\ UNCHANGED <<history, editVars, nav, selected_shortcut_index,
                   should_quit, envVars>>
    /\ AfterKey

\* Esc: App::exit_goto_mode
GotoEsc ==
    /\ AtKey(ShortcutSelection)
    /\ mode' = Normal
    /\ UNCHANGED selected_shortcut_index
    /\ GotoFrame
    /\ AfterKey

\* Any other key
GotoIgnored ==
    /\ AtKey(ShortcutSelection)
    /\ UNCHANGED <<mode, selected_shortcut_index>>
    /\ GotoFrame
    /\ AfterKey

----------------------------------------------------------------------------
(* The session from its start.                                             *)

\* The clock when the session starts; saved bookmarks are older
StartClock == 2

\* Bookmark stores load_shortcuts may find on disk
InitStores ==
    {<<>>,
     <<NewShortcut(DirA, 0)>>,
     <<NewShortcut(DirAB, 0), NewShortcut(Root, 1)>>}

\* The list heights the navigator view of a session may have
SessionHeights == {2}

\* The directories a session is started in
StartDirs == {Root, DirA}

\* App::new in one of the directories ds of one of the file systems ts,
\* with a terminal whose navigator list has one of the heights hs and with
\* one of the bookmark stores ss on disk
Start(ts, ds, hs, ss) ==
    /\ dirs \in ts
    /\ current_dir \in ds \cap dirs
    /\ shortcuts \in ss
    /\ now = StartClock
    /\ list_height \in hs
    /\ mode = Normal
    /\ history = <<>>
    /\ history_index = None
    /\ input = <<>>
    /\ cursor_pos = 0
    /\ output = <<>>
    /\ nav = NewNav
    /\ selected_shortcut_index = 0
    /\ should_quit = FALSE
    /\ git_status = None
    /\ last_git_poll = now
    /\ frame = NoFrame
    /\ git_rx = <<>>
    /\ worker = NewWorker
    /\ git_tx = <<UpdateStatus(current_dir, FALSE)>>
    /\ pc = "key"

Init == Start(Trees, StartDirs, SessionHeights, InitStores) /\ pending = <<>>

\* The scrollback stays within the bound of the model.  Every command that
\* is executed and every bookmark that is touched adds a line to it, so it
\* bounds the history and the clock as well
Bounded == Len(output') <= MaxOut

\* The command lines the user of the session types
LINE_CD_LIST == <<"c", "d", " ", "-", "l", "i", "s", "t">>
LINE_JERM_GOTO == <<"j", "e", "r", "m", " ", "g", "o", "t", "o">>
LINE_JERM_SAVE == <<"j", "e", "r", "m", " ", "s", "a", "v", "e">>
LINE_CD_A == <<"c", "d", " ", "a">>
LINE_EXIT == <<"e", "x", "i", "t">>
Lines == {LINE_CD_LIST, LINE_JERM_GOTO, LINE_JERM_SAVE, LINE_CD_A,
          LINE_EXIT}


\* The slots the user tries: the first ones and the last
Slots == {1, 2, 3, MaxSlot}

Next ==
    \/ \E l \in Lines : input = <<>> /\ KeyChars(l)
    \/ KeyClearInput
    \/ KeyEnter /\ Bounded
    \/ \E k \in Slots : KeyCtrlDigit(k) /\ Bounded
    \/ KeyCtrlC /\ Bounded
    \/ KeyCtrlD
    \/ NavUp
    \/ NavDown
    \/ NavRight
    \/ NavLeft
    \/ NavEnter /\ Bounded
    \/ NavEsc
    \/ DrawNavigator
    \/ GotoUp
    \/ GotoDown
    \/ GotoEnter /\ Bounded
    \/ GotoEsc

Spec == Init /\ [][Next]_vars

----------------------------------------------------------------------------
(* The directory browser in sessions that only browse, on terminals of     *)
(* every list height and on a disk that changes under the browser.         *)

MaxListHeight == 3
BrowseHeights == 1..MaxListHeight
BrowseTrees == {FullTree, BareTree, WideTree}

NavInit == Start(BrowseTrees, StartDirs, BrowseHeights, {<<>>}) /\ pending = <<>>

\* Another process creates or removes directories
DiskChanges ==
    /\ dirs' \in BrowseTrees \ {dirs}
    /\ UNCHANGED <<mode, current_dir, history, editVars, output, nav, bookVars,
                   should_quit, list_height, git_status,
                   last_git_poll, pc, pending, frame,
                   git_tx, git_rx, worker>>

NavNext ==
    \/ input = <<>> /\ KeyChars(LINE_CD_LIST)
    \/ KeyEnter /\ Bounded
    \/ NavUp
    \/ NavDown
    \/ NavRight
    \/ NavLeft
    \/ NavEnter /\ Bounded
    \/ NavEsc
    \/ DrawNavigator
    \/ DiskChanges

NavSpec == NavInit /\ [][NavNext]_vars

----------------------------------------------------------------------------
(* The scripted session: cd -list, Enter, Down, Right, Enter, typed ahead  *)
(* in a directory that has a visible subdirectory.                         *)

KEY_ENTER == "Enter"
KEY_DOWN == "Down"
KEY_RIGHT == "Right"
Script == LINE_CD_LIST \o <<KEY_ENTER, KEY_DOWN, KEY_RIGHT, KEY_ENTER>>

ScenarioTrees == {FullTree, WideTree}

ScenarioInit ==
    /\ Start(ScenarioTrees, StartDirs, BrowseHeights, InitStores)
    /\ ListedDirs(current_dir) # {}
    /\ pending = Script

\* The key event::read returns next
NextKey(k) == pending # <<>> /\ Head(pending) = k
NextKeyIsChar ==
    pending # <<>> /\ Head(pending) \notin {KEY_ENTER, KEY_DOWN, KEY_RIGHT}

ScenarioNext ==
    \/ NextKeyIsChar /\ KeyChar(Head(pending))
    \/ NextKey(KEY_ENTER) /\ KeyEnter
    \/ NextKey(KEY_DOWN) /\ NavDown
    \/ NextKey(KEY_RIGHT) /\ NavRight
    \/ NextKey(KEY_ENTER) /\ NavEnter
    \/ DrawNavigator

ScenarioSpec == ScenarioInit /\ [][ScenarioNext]_vars

----------------------------------------------------------------------------
(* The editing session: the keys of the input line, pressed one at a time, *)
(* with single-byte and two-byte characters, up to the first line that is  *)
(* executed or interrupted and the editing that follows it.                *)

MaxInput == 2
EditChars == {"a", "é"}

EditInit == Start({FullTree}, {Root}, SessionHeights, {<<>>}) /\ pending = <<>>

EditNext ==
    \/ \E c \in EditChars : Len(input) < MaxInput /\ KeyChar(c)
    \/ KeyBackspace
    \/ KeyLeft
    \/ KeyRight
    \/ KeyHome
    \/ KeyEnd
    \/ KeyClearInput
    \/ KeyUp
    \/ KeyDown
    \/ output = <<>> /\ KeyEnter /\ Bounded
    \/ output = <<>> /\ KeyCtrlC

EditSpec == EditInit /\ [][EditNext]_vars

\* C1 as stated: after any sequence of editing keys the cursor is at most
\* the number of characters of the input line, and no key has made
\* String::insert or String::remove panic on its index.
C1_CursorWithinChars ==
    /\ pc # "panicked"
    /\ cursor_pos \in 0..Len(input)

----------------------------------------------------------------------------
(* The bookmark picker in sessions that find up to MaxStore bookmarks on   *)
(* disk, more than the picker has slots.                                   *)

MaxStore == 10

\* The directory k levels below the root: /, /a, /a/a, ...
DeepPath(k) == <<RootDir>> \o [j \in 1..k |-> <<"a">>]

\* A store of n bookmarks saved before the session, the first the most
\* recently accessed
BigStore(n) == [i \in 1..n |-> NewShortcut(DeepPath(i - 1), StartClock - i)]
PickerStores == {BigStore(n) : n \in 0..MaxStore}

PickerInit == Start({FullTree}, {Root}, SessionHeights, PickerStores) /\ pending = <<>>

PickerNext ==
    \/ input = <<>> /\ KeyChars(LINE_JERM_GOTO)
    \/ KeyEnter /\ Bounded
    \/ GotoUp
    \/ GotoDown
    \/ GotoEnter /\ Bounded
    \/ GotoEsc

PickerSpec == PickerInit /\ [][PickerNext]_vars

\* C11: in bookmark selection mode the highlighted index is at least 0 and
\* at most min(number of bookmarks, 9) - 1, and get_shortcut finds a
\* bookmark for it.
C11_PickerSelectionBound ==
    mode = ShortcutSelection =>
        /\ selected_shortcut_index >= 0
        /\ selected_shortcut_index <=
               (IF Len(shortcuts) < 9 THEN Len(shortcuts) ELSE 9) - 1
        /\ get_shortcut(shortcuts, selected_shortcut_index + 1) # None

\* C11 witness: the ninth of more than nine bookmarks is highlighted
C11_Witness ==
    /\ mode = ShortcutSelection
    /\ Len(shortcuts) > 9
    /\ selected_shortcut_index = 8

----------------------------------------------------------------------------
(* The session that executes lines and walks its history: lines with and   *)
(* without surrounding blanks, a blank line, and Ctrl+L to clear the       *)
(* scrollback.                                                             *)

MaxHist == 3

LINE_CD_ROOT == <<"c", "d", " ", "/">>
LINE_CD_A_SPACED == <<" ">> \o LINE_CD_A \o <<" ">>
LINE_BLANK == <<" ">>
LINE_SHELL == <<"a">>
HistLines == {LINE_CD_A, LINE_CD_A_SPACED, LINE_CD_ROOT, LINE_BLANK,
              LINE_SHELL, CLEAR_WORD}

HistInit == Start({FullTree}, {Root}, SessionHeights, {<<>>}) /\ pending = <<>>

HistNext ==
    \/ \E l \in HistLines : input = <<>> /\ KeyChars(l)
    \/ KeyEnter /\ Bounded /\ Len(history') <= MaxHist
    \/ KeyUp
    \/ KeyDown
    \/ KeyClearInput
    \/ output # <<>> /\ KeyCtrlL

HistSpec == HistInit /\ [][HistNext]_vars

\* The place in the history the input line shows, counted from 1; one past
\* the newest entry when no history navigation is in progress
Shown == IF history_index = None THEN Len(history) + 1
         ELSE Unwrap(history_index) + 1

\* C12: history_prev on an empty history changes nothing; otherwise it
\* loads the entry before the one shown, the newest when no navigation is
\* in progress, and stays on the oldest; history_next does nothing when no
\* navigation is in progress, loads the entry after the one shown, and at
\* the newest entry empties the input line, sets the cursor to 0 and ends
\* the navigation.  The entry shown is always one of the history.
C12_HistoryNavigation ==
    /\ [](history_index # None =>
              /\ Unwrap(history_index) < Len(history)
              /\ input = history[Shown])
    /\ [][/\ KeyUp =>
                 IF history = <<>>
                     THEN UNCHANGED <<input, cursor_pos, history_index>>
                     ELSE LET to == IF Shown > 1 THEN Shown - 1 ELSE 1
                          IN  /\ input' = history[to]
                              /\ history_index' = Some(to - 1)
          /\ KeyDown =>
                 IF history_index = None
                     THEN UNCHANGED <<input, cursor_pos, history_index>>
                 ELSE IF Shown < Len(history)
                     THEN /\ input' = history[Shown + 1]
                          /\ history_index' = Some(Shown)
                 ELSE /\ input' = <<>>
                      /\ cursor_pos' = 0
                      /\ history_index' = None]_vars

\* C12 witness: three history_prev calls have reached the oldest of three
\* different commands
C12_Witness ==
    /\ Len(history) = 3
    /\ history[1] # history[3]
    /\ history_index = Some(0)
    /\ input = history[1]

\* C37: when history navigation is in progress on entry i, i is below the
\* number of history entries, so the entry history_prev and history_next
\* read exists; with an empty history no navigation is in progress.
C37_HistoryIndexInBounds ==
    /\ history_index # None => Unwrap(history_index) \in 0..(Len(history) - 1)
    /\ history = <<>> => history_index = None

\* C37 witness: the navigation is on the newest of MaxHist commands
C37_Witness ==
    /\ Len(history) = MaxHist
    /\ history_index = Some(MaxHist - 1)
    /\ input = history[MaxHist]

\* C13: the history has no entry that is empty or only blanks and no two
\* adjacent entries that are equal.
C13_HistoryWellFormed ==
    /\ \A i \in 1..Len(history) : Trim(history[i]) # <<>>
    /\ \A i \in 1..(Len(history) - 1) : history[i] # history[i + 1]

\* C13 witness: cd a has been executed in /a, where the first cd a led, and
\* is in the history once
C13_Witness ==
    /\ history = <<LINE_CD_A>>
    /\ current_dir = DirA
    /\ Len(output) = 2
    /\ output[1] = prompt \o LINE_CD_A

\* C14 as stated: Enter appends the trimmed input line to the history when
\* it is not empty and differs from the newest entry, and nothing
\* otherwise.
C14_TrimmedLineToHistory ==
    [][KeyEnter =>
         history' = IF /\ Trim(input) # <<>>
                       /\ (history = <<>> \/ history[Len(history)] # Trim(input))
                        THEN Append(history, Trim(input))
                        ELSE history]_vars

\* C15: Enter echoes the prompt of the working directory and status the
\* command was typed in, followed by the input line, below the scrollback
\* there was; the history takes the line as it was typed; the input line
\* is emptied, the cursor set to 0 and the history navigation ended; and
\* whatever the command prints or clears comes after the echo: after every
\* command but clear the scrollback is the old scrollback, the echo, and
\* then the lines of the command, and after clear it is empty.
C15_EnterOrder ==
    [][KeyEnter =>
         LET echo == prompt_string(current_dir, git_status) \o input
             at == Len(output) + 1
         IN  /\ input' = <<>>
             /\ cursor_pos' = 0
             /\ history_index' = None
             /\ history' # history => history'[Len(history')] = input
             /\ IF parse_command(input).kind = "Clear"
                    THEN output' = <<>>
                    ELSE /\ Len(output') >= at
                         /\ SubSeq(output', 1, Len(output)) = output
                         /\ output'[at] = echo]_vars

\* C15 witness: cd a typed in / has been executed; its echo shows the
\* prompt of /, the session is in /a, and the input line is empty
C15_Witness ==
    /\ current_dir = DirA
    /\ output = <<prompt_string(Root, None) \o LINE_CD_A>>
    /\ prompt # prompt_string(Root, None)
    /\ input = <<>>
    /\ cursor_pos = 0
    /\ history_index = None

----------------------------------------------------------------------------
(* Sessions whose commands fail: cd to a missing path, to a file and to    *)
(* `-`, a shell that cannot be started, bookmarks of directories that are  *)
(* gone, and every key of the three modes.                                 *)

LINE_CD == CD_WORD
LINE_CD_F == <<"c", "d", " ", "f">>
LINE_CD_DASH == <<"c", "d", " ", "-">>
CmdLines == {LINE_CD, LINE_CD_A, LINE_CD_F, LINE_CD_DASH, LINE_SHELL,
             LINE_EXIT, LINE_JERM_GOTO, LINE_CD_LIST}

CmdInit ==
    /\ Start(Trees, {Root}, SessionHeights, {<<NewShortcut(DirA, 0)>>})
    /\ pending = <<>>

CmdNext ==
    \/ \E l \in CmdLines : input = <<>> /\ KeyChars(l)
    \/ KeyEnter /\ Bounded
    \/ \E k \in {1, MaxSlot} : KeyCtrlDigit(k) /\ Bounded
    \/ KeyCtrlC /\ Bounded
    \/ KeyCtrlD
    \/ NavUp
    \/ NavDown
    \/ NavRight
    \/ NavLeft
    \/ NavEnter /\ Bounded
    \/ NavEsc
    \/ DrawNavigator
    \/ GotoUp
    \/ GotoDown
    \/ GotoEnter /\ Bounded
    \/ GotoEsc

CmdSpec == CmdInit /\ [][CmdNext]_vars

\* C16: a cd whose target does not resolve (a missing path, a path that is
\* no directory, or `-`) adds, after the echo, exactly one line that starts
\* with `cd: ` and leaves the working directory, the mode and the quit flag
\* as they were; a cd whose target resolves makes the resolved path, an
\* existing directory, the working directory and adds nothing but the echo.
C16_CdOutcome ==
    [][(KeyEnter /\ parse_command(input).kind = "Cd") =>
         LET arg == parse_command(input).arg
             target == IF arg = None THEN <<"~">> ELSE Unwrap(arg)
             r == resolve_cd_path(target, current_dir)
             echoed == Append(output, prompt \o input)
             fails == \/ target = <<"-">>
                      \/ ~r.ok
         IN  IF fails
                 THEN /\ Len(output') = Len(echoed) + 1
                      /\ SubSeq(output', 1, Len(echoed)) = echoed
                      /\ StartsWith(output'[Len(output')], CD_ERR_PREFIX)
                      /\ UNCHANGED <<current_dir, mode, should_quit>>
                 ELSE /\ output' = echoed
                      /\ current_dir' = r.val
                      /\ IsDir(current_dir')]_vars

\* C16 witness: cd f, f being a file of /, has been refused in /
C16_Witness ==
    /\ current_dir = Root
    /\ output = <<prompt \o LINE_CD_F, CD_ERR_PREFIX \o NOT_A_DIR \o <<"f">>>>
    /\ mode = Normal
    /\ ~should_quit

\* C17: the quit flag is false when the session starts and turns true only
\* in Normal mode, by Enter on a line that parses to Exit or by Ctrl+C or
\* Ctrl+D on an empty input line.
C17_QuitOnlyOnRequest ==
    /\ ~should_quit
    /\ [][(should_quit' /\ ~should_quit) =>
             /\ mode = Normal
             /\ \/ KeyEnter /\ parse_command(input).kind = "Exit"
                \/ KeyCtrlC /\ input = <<>>
                \/ KeyCtrlD /\ input = <<>>]_vars

\* C17 witness: a cd has failed, the session went on, and the user has
\* then quit with an empty input line
C17_Witness ==
    /\ should_quit
    /\ output # <<>>
    /\ StartsWith(output[Len(output)], CD_ERR_PREFIX)
    /\ input = <<>>

----------------------------------------------------------------------------
(* The status worker under any holder of the request channel: requests     *)
(* with and without fetch, for directories inside and outside a work       *)
(* tree, stray and late messages, and the channel closing.                 *)

MaxRequests == 3
MaxQueue == 2

ClientMessages ==
    {UpdateStatus(d, f) : d \in {Root, DirA}, f \in BOOLEAN}
        \cup {StatusUpdate(None), Shutdown, Closed}

\* Sender::send of a message, or the drop of the Sender
ClientSend ==
    /\ Closed \notin {git_tx[i] : i \in 1..Len(git_tx)}
    /\ Len(git_tx) < MaxQueue
    /\ worker.received < MaxRequests
    /\ \E m \in ClientMessages : git_tx' = Append(git_tx, m)
    /\ UNCHANGED <<mode, current_dir, history, editVars, output, nav,
                   bookVars, should_quit, list_height, dirs, git_status,
                   last_git_poll,
                   git_rx, worker, pc, pending, frame>>

WorkerInit ==
    /\ Start({FullTree}, StartDirs, SessionHeights, {<<>>})
    /\ pending = <<>>

WorkerNext ==
    \/ ClientSend
    \/ WorkerRecv
    \/ WorkerServe

WorkerSpec == WorkerInit /\ [][WorkerNext]_vars

\* C18: the worker has never sent more replies than it has taken requests;
\* whenever it is back in recv or has left its loop every request taken has
\* been answered, and while it serves one exactly that one is open; a
\* request with with_fetch reaches the snapshot only after git fetch has
\* run; and serving a request sends exactly one message, a StatusUpdate,
\* that carries None when the directory is in no work tree.
C18_OneReplyPerRequest ==
    /\ [](/\ worker.replied <= worker.received
          /\ Len(git_rx) = worker.replied
          /\ worker.pc \in {"recv", "exited"} =>
                 worker.replied = worker.received
          /\ worker.pc \in {"fetch", "status"} =>
                 worker.received = worker.replied + 1
          /\ worker.pc = "status" /\ Unwrap(worker.req).with_fetch =>
                 worker.fetched)
    /\ [][worker'.replied # worker.replied =>
             /\ worker'.replied = worker.replied + 1
             /\ Len(git_rx') = Len(git_rx) + 1
             /\ git_rx'[Len(git_rx')].type = "StatusUpdate"
             /\ ~InRepo(Unwrap(worker.req).dir) =>
                    git_rx'[Len(git_rx')].status = None]_vars

\* C18 witness: a request for / was answered with None, one for /a with a
\* snapshot, and a third, with fetch, is past its git fetch
C18_Witness ==
    /\ Len(git_rx) = 2
    /\ git_rx[1] = StatusUpdate(None)
    /\ git_rx[2].status # None
    /\ worker.pc = "status"
    /\ worker.fetched

----------------------------------------------------------------------------
(* The session together with its status worker, from App::new to the drop  *)
(* of the App when run_app has returned.  The worker thread and the main   *)
(* thread are scheduled fairly.                                            *)

\* Drop for App without the Shutdown message: the Sender just goes away
DropApp_silent ==
    /\ pc = "done"
    /\ pc' = "dropped"
    /\ git_tx' = Append(git_tx, Closed)
    /\ UNCHANGED <<mode, current_dir, history, editVars, output, nav,
                   bookVars, should_quit, list_height, dirs, git_status,
                   last_git_poll,
                   git_rx, worker, pending, frame>>

\* main after run_app: the App goes out of scope.  Drop for App sends
\* Shutdown, then the fields are dropped, the Sender among them
DropApp ==
    /\ pc = "done"
    /\ pc' = "dropped"
    /\ git_tx' = git_tx \o <<Shutdown, Closed>>
    /\ UNCHANGED <<mode, current_dir, history, editVars, output, nav,
                   bookVars, should_quit, list_height, dirs, git_status,
                   last_git_poll,
                   git_rx, worker, pending, frame>>

GitLines == {LINE_CD_A, LINE_CD_ROOT, LINE_CD_LIST, LINE_JERM_GOTO, LINE_EXIT}

GitInit ==
    /\ Start({FullTree}, {Root}, SessionHeights, {<<NewShortcut(DirA, 0)>>})
    /\ pending = <<>>

GitNext ==
    \/ \E l \in GitLines : input = <<>> /\ KeyChars(l)
    \/ KeyEnter /\ Bounded
    \/ KeyCtrlDigit(1) /\ Bounded
    \/ KeyCtrlD
    \/ NavDown
    \/ NavEnter /\ Bounded
    \/ DrawNavigator
    \/ GotoEnter /\ Bounded
    \/ DropApp
    \/ WorkerRecv
    \/ WorkerServe

GitSpec ==
    /\ GitInit
    /\ [][GitNext]_vars
    /\ WF_vars(DropApp)
    /\ WF_vars(WorkerRecv)
    /\ WF_vars(WorkerServe)

\* The messages a step puts into the request channel
Sent ==
    IF Len(git_tx') > Len(git_tx)
        THEN SubSeq(git_tx', Len(git_tx) + 1, Len(git_tx'))
        ELSE <<>>

\* C19: the step that ends the session, and no other, sends Shutdown, once,
\* and it can be taken whatever the worker is doing; after it the session
\* sends nothing.  The worker that takes Shutdown or finds the channel
\* closed leaves its loop, and a worker that has left its loop takes no
\* message and sends none.  Once run_app has returned the worker
\* eventually leaves its loop.
C19_ShutdownEndsWorker ==
    /\ [](pc = "done" => ENABLED DropApp)
    /\ [][/\ (pc = "done" /\ pc' # "done") =>
                 /\ pc' = "dropped"
                 /\ Sent # <<>>
                 /\ Sent[1] = Shutdown
                 /\ \A i \in 2..Len(Sent) : Sent[i] # Shutdown
          /\ (\E i \in 1..Len(Sent) : Sent[i] = Shutdown) => pc = "done"
          /\ pc = "dropped" => pc' = "dropped" /\ Sent = <<>>
          /\ (/\ Len(git_tx') < Len(git_tx) \/ worker' # worker
              /\ worker.pc = "recv"
              /\ Head(git_tx) \in {Shutdown, Closed}) =>
                 worker'.pc = "exited"
          /\ worker.pc = "exited" =>
                 /\ worker' = worker
                 /\ git_rx' = git_rx
                 /\ Len(git_tx') >= Len(git_tx)]_vars
    /\ (pc = "done") ~> (worker.pc = "exited")

\* C19 witness: the session has ended after a cd, and the worker, having
\* answered the one request of the session, has taken Shutdown and left
C19_Witness ==
    /\ pc = "dropped"
    /\ current_dir = DirA
    /\ worker.pc = "exited"
    /\ worker.replied = 1
    /\ git_tx = <<Closed>>

\* C21 as stated: every pass of run_app's loop, that is every key the
\* session handles, empties the reply channel and leaves in git_status the
\* last status drained, or the old one when nothing was pending.
C21_DrainOnEveryIteration ==
    [][(pc = "key" /\ ~WorkerRecv /\ ~WorkerServe) =>
         /\ git_rx' = <<>>
         /\ git_status' = IF git_rx = <<>> THEN git_status
                           ELSE git_rx[Len(git_rx)].status]_vars

\* C20 as stated: the session starts with one request without fetch for
\* its working directory in the channel, and every step that changes the
\* working directory sends one request without fetch for the new one.
C20_RequestOnEveryChange ==
    /\ git_tx = <<UpdateStatus(current_dir, FALSE)>>
    /\ [][current_dir' # current_dir =>
             Sent = <<UpdateStatus(current_dir', FALSE)>>]_vars

----------------------------------------------------------------------------
(* A session whose loop calls App::poll_git_updates, with time passing     *)
(* between the calls.                                                      *)

\* Duration::from_secs(30)
PollInterval == 30

\* The interval test with > in place of >=
IntervalElapsed_late == now - last_git_poll > PollInterval

\* self.last_git_poll.elapsed() >= Duration::from_secs(30)
IntervalElapsed == now - last_git_poll >= PollInterval

\* poll_git_updates that keeps the status of the first reply it drains
PollGitUpdates_keeps_first ==
    /\ pc = "key"
    /\ git_rx' = <<>>
    /\ git_status' = IF git_rx = <<>> THEN git_status
                      ELSE git_rx[1].status
    /\ IF IntervalElapsed
           THEN /\ git_tx' = Append(git_tx, UpdateStatus(current_dir, TRUE))
                /\ last_git_poll' = now
           ELSE UNCHANGED <<git_tx, last_git_poll>>
    /\ UNCHANGED <<mode, current_dir, history, editVars, output, nav,
                   bookVars, should_quit, list_height, dirs, worker, pc,
                   pending, frame>>

\* App::poll_git_updates: try_recv until the channel is empty, keeping the
\* status of each StatusUpdate; then, when the interval has elapsed, a
\* request with fetch for the working directory
PollGitUpdates ==
    /\ pc = "key"
    /\ git_rx' = <<>>
    /\ git_status' = IF git_rx = <<>> THEN git_status
                      ELSE git_rx[Len(git_rx)].status
    /\ IF IntervalElapsed
           THEN /\ git_tx' = Append(git_tx, UpdateStatus(current_dir, TRUE))
                /\ last_git_poll' = now
           ELSE UNCHANGED <<git_tx, last_git_poll>>
    /\ UNCHANGED <<mode, current_dir, history, editVars, output, nav,
                   bookVars, should_quit, list_height, dirs, worker, pc,
                   pending, frame>>

MaxTime == 65
Ticks == {1, 29}

\* Time passes
Tick ==
    /\ \E d \in Ticks : now' = now + d /\ now' <= MaxTime
    /\ UNCHANGED <<mode, current_dir, history, editVars, output, nav,
                   shortcuts, selected_shortcut_index, should_quit,
                   list_height, dirs, git_status, last_git_poll, git_tx,
                   git_rx, worker, pc, pending, frame>>

PollInit == Start({FullTree}, {Root}, SessionHeights, {<<>>}) /\ pending = <<>>

PollNext ==
    \/ input = <<>> /\ KeyChars(LINE_CD_A)
    \/ KeyEnter /\ Bounded
    \/ PollGitUpdates
    \/ Tick
    \/ WorkerRecv
    \/ WorkerServe

PollSpec == PollInit /\ [][PollNext]_vars

\* C22: a poll sends a request with fetch for the working directory, and
\* restarts the interval, exactly when 30 seconds or more have passed since
\* last_git_poll, which is the start of the session or the time of the
\* last request with fetch; nothing else sends a request with fetch or
\* moves last_git_poll, so two such requests are at least 30 seconds apart.
C22_FetchEveryInterval ==
    /\ [](last_git_poll <= now)
    /\ [][/\ PollGitUpdates =>
                 IF now - last_git_poll >= 30
                     THEN /\ Sent = <<UpdateStatus(current_dir, TRUE)>>
                          /\ last_git_poll' = now
                     ELSE /\ Sent = <<>>
                          /\ last_git_poll' = last_git_poll
          /\ (\E i \in 1..Len(Sent) :
                  Sent[i].type = "UpdateStatus" /\ Sent[i].with_fetch) =>
                 /\ now - last_git_poll >= 30
                 /\ last_git_poll' = now
          /\ last_git_poll' # last_git_poll => Sent # <<>>]_vars

\* Every request sent has been answered and every reply drained
Settled ==
    /\ git_tx = <<>>
    /\ worker.pc = "recv"
    /\ worker.replied >= 1
    /\ git_rx = <<>>

\* C40: requests are taken in the order they were sent and answered one by
\* one, and replies are drained in the order they were sent: a request
\* sent goes behind those waiting, the worker takes the one waiting
\* longest, its reply goes behind the replies waiting, and a poll that
\* finds replies keeps the status of the newest.  So once every request
\* has been answered and every reply drained, the status of the session is
\* the snapshot computed for the request sent last.
C40_RepliesInRequestOrder ==
    /\ [](Settled =>
              /\ git_status = Unwrap(worker.last).status
              /\ git_status \in get_git_status(Unwrap(worker.last).req.dir))
    /\ [][/\ Sent # <<>> => git_tx' = git_tx \o Sent
          /\ worker'.received # worker.received =>
                 /\ worker'.req = Some(Head(git_tx))
                 /\ git_tx' = Tail(git_tx)
          /\ worker'.replied # worker.replied =>
                 /\ worker'.last # None
                 /\ Unwrap(worker'.last).req = Unwrap(worker.req)
                 /\ git_rx' = Append(git_rx,
                                     StatusUpdate(Unwrap(worker'.last).status))
          /\ (Settled' /\ ~Settled) =>
                 /\ PollGitUpdates
                 /\ git_status' = git_rx[Len(git_rx)].status]_vars

\* C40 witness: the request of the start, for /, and the first request
\* with fetch, for /a, were answered before a poll drained both replies;
\* the status is the snapshot of /a
C40_Witness ==
    /\ Settled
    /\ worker.replied = 2
    /\ Unwrap(worker.last).req = UpdateStatus(DirA, TRUE)
    /\ git_status # None
    /\ last_git_poll = StartClock + PollInterval
    /\ now = last_git_poll + 1

\* C22 witness: the second request with fetch has been sent, for /a, 30
\* seconds after the first, and a poll one second later has sent none
C22_Witness ==
    /\ last_git_poll = StartClock + 60
    /\ now = last_git_poll + 1
    /\ current_dir = DirA
    /\ git_tx # <<>>
    /\ git_tx[Len(git_tx)] = UpdateStatus(DirA, TRUE)
    /\ git_rx = <<>>
    /\ git_status # None

----------------------------------------------------------------------------
(* The terminal view drawn for the input lines a user can type, one        *)
(* character at a time, out of words, flags, numbers, paths, operators,    *)
(* quotes and blanks.                                                      *)

RECURSIVE visual_lines(_, _)
\* The rows render_terminal makes of the scrollback lines
visual_lines(lines, width) ==
    IF lines = <<>> THEN <<>>
    ELSE wrap_line(Head(lines), width) \o visual_lines(Tail(lines), width)

\* render_terminal in an area of width columns (inner_area.width.max(1)) and
\* height rows inside its border: the rows, the scroll, and the cursor
render_terminal(width, height) ==
    LET output_rows == visual_lines(output, width)
        rows == output_rows \o wrap_line(prompt \o input, width)
        scroll == SatSub(Len(rows), height)
        cursor_visual_pos ==
            StrWidth(prompt) + StrWidth(SubSeq(input, 1, Min(cursor_pos, Len(input))))
        cursor_line_offset == cursor_visual_pos \div width
        cursor_line_visible ==
            SatSub(Len(output_rows) + cursor_line_offset, scroll)
    IN  [width |-> width, height |-> height, input |-> input,
         cursor_pos |-> cursor_pos, rows |-> rows,
         input_line_start |-> Len(output_rows), tokens |-> tokenize(input),
         scroll |-> scroll,
         cursor_line_offset |-> cursor_line_offset,
         cursor_x_offset |-> cursor_visual_pos % width,
         cursor_line_visible |-> cursor_line_visible,
         cursor_set |-> cursor_line_visible < height]

\* draw_ui in Normal mode on a terminal whose main panel has width columns
\* and height rows inside its border
DrawTerminalIn(width, height) ==
    /\ pc = "key"
    /\ frame' = render_terminal(width, height)
    /\ UNCHANGED <<mode, current_dir, history, editVars, output, nav,
                   bookVars, should_quit, list_height, dirs, git_status,
                   last_git_poll, git_tx, git_rx, worker, pc, pending>>

\* render_terminal in an area that is width columns wide and 24 rows high
\* inside its border
DrawTerminal(width) ==
    /\ pc = "key"
    /\ frame' = render_terminal(width, 24)
    /\ UNCHANGED <<mode, current_dir, history, editVars, output, nav,
                   bookVars, should_quit, list_height, dirs, git_status,
                   last_git_poll, git_tx, git_rx, worker, pc, pending>>

MaxLine == 3
TokChars == {"a", "-", "5", ".", "/", " ", "|", "&", ">", "<", ";", "\"", "'"}
TokWidths == {80}

TokInit == Start({FullTree}, {Root}, SessionHeights, {<<>>}) /\ pending = <<>>

TokNext ==
    \/ \E c \in TokChars : Len(input) < MaxLine /\ KeyChar(c)
    \/ \E w \in TokWidths : DrawTerminal(w)

TokSpec == TokInit /\ [][TokNext]_vars

\* The tokens of the frame that are words
WordTypes == {"Command", "Flag", "Path", "Number", "Text"}

\* C23: the texts of the tokens of the input line drawn, put together in
\* order, are the input line, and no token has an empty text.
C23_TokenRoundTrip ==
    /\ Concat([k \in 1..Len(frame.tokens) |-> frame.tokens[k].text])
           = frame.input
    /\ \A k \in 1..Len(frame.tokens) : frame.tokens[k].text # <<>>

\* C23 witness: a line with a blank in front and an unterminated quote has
\* been drawn
C23_Witness ==
    frame.tokens = <<Token(<<" ">>, "Whitespace"),
                     Token(<<"'", "a">>, "String")>>

Redirects == {<<">">>, <<">", ">">>, <<"<">>}

\* The last token before the k-th of ts that is no run of blanks, 0 when
\* there is none
PrevToken(ts, k) ==
    LET before == {j \in 1..(k - 1) : ts[j].token_type # "Whitespace"}
    IN  IF before = {} THEN 0
        ELSE CHOOSE j \in before : \A i \in before : i <= j

\* What the flag is when the k-th token of ts is read, by the rule: set at
\* the start and after an operator that is no redirect, cleared after a
\* redirect, a word and a string
ExpectAt(ts, k) ==
    \/ PrevToken(ts, k) = 0
    \/ /\ ts[PrevToken(ts, k)].token_type = "Operator"
       /\ ts[PrevToken(ts, k)].text \notin Redirects

\* The k-th token of ts is the first word or string since the start of the
\* line or since the last operator that is no redirect
FirstSinceCommandPoint(ts, k) ==
    LET points == {j \in 1..(k - 1) : /\ ts[j].token_type = "Operator"
                                      /\ ts[j].text \notin Redirects}
        from == IF points = {} THEN 0
                ELSE CHOOSE j \in points : \A i \in points : i <= j
    IN  \A j \in (from + 1)..(k - 1) :
            ts[j].token_type \notin WordTypes \cup {"String"}

\* C24: a word that is no flag, number or path is typed Command when the
\* flag is set where it is read, and Text otherwise: Command exactly when
\* the token before it, blanks skipped, is an operator other than > >> <
\* or there is no token before it.
C24_CommandWhereFlagIsSet ==
    \A k \in 1..Len(frame.tokens) :
        frame.tokens[k].token_type \in {"Command", "Text"} =>
            (frame.tokens[k].token_type = "Command"
                 <=> ExpectAt(frame.tokens, k))

\* C24 as stated: a word that is no flag, number or path is typed Command
\* exactly when it is the first word or string since the start of the line
\* or since an operator that is no redirect.
C24_CommandWhenFirstWord ==
    \A k \in 1..Len(frame.tokens) :
        frame.tokens[k].token_type \in {"Command", "Text"} =>
            (frame.tokens[k].token_type = "Command"
                 <=> FirstSinceCommandPoint(frame.tokens, k))

\* C24 witness: the word after a pipe and a redirect, the first word of
\* the line, has been drawn as Text
C24_Witness ==
    frame.tokens = <<Token(<<"|">>, "Operator"), Token(<<">">>, "Operator"),
                     Token(<<"a">>, "Text")>>

\* The type the rule gives a word: the first of Flag, Number and Path that
\* applies, and Plain when none does.  A number needs a character after
\* the leading - when needs_digit is set
RuleType(word, needs_digit) ==
    LET rest == IF StartsWith(word, <<"-">>) THEN Tail(word) ELSE word
    IN  IF \/ StartsWith(word, <<"-", "-">>)
           \/ /\ StartsWith(word, <<"-">>)
              /\ \E i \in 2..Len(word) : word[i] \notin AsciiDigits \cup {"."}
            THEN "Flag"
        ELSE IF /\ \A i \in 1..Len(rest) : rest[i] \in AsciiDigits \cup {"."}
                /\ needs_digit => rest # <<>>
            THEN "Number"
        ELSE IF \/ \E i \in 1..Len(word) : word[i] = "/"
                \/ StartsWith(word, <<".", "/">>)
                \/ StartsWith(word, <<"~", "/">>)
            THEN "Path"
        ELSE "Plain"

\* The words of the frame have the types the rule gives them, a plain word
\* being Command where the flag is set and Text elsewhere
TypedByRule(needs_digit) ==
    \A k \in 1..Len(frame.tokens) :
        LET t == frame.tokens[k]
            r == RuleType(t.text, needs_digit)
        IN  t.token_type \in WordTypes =>
                t.token_type = IF r # "Plain" THEN r
                               ELSE IF ExpectAt(frame.tokens, k) THEN "Command"
                               ELSE "Text"

\* C25: every word has the type of the rule, in which a number, once a
\* single leading - is stripped, is one or more digits or dots: the word -
\* alone is a plain word, Command or Text.
C25_WordTypes == TypedByRule(TRUE)

\* C25 as stated: every word has the type of the rule, in which a number,
\* once a single leading - is stripped, has only digits and dots left,
\* which holds of the word - that has nothing left.
C25_WordTypesAsStated == TypedByRule(FALSE)

\* C25 witness: the line `->-` has been drawn, the first - a Command and
\* the second, after the redirect, a Text
C25_Witness ==
    frame.tokens = <<Token(<<"-">>, "Command"), Token(<<">">>, "Operator"),
                     Token(<<"-">>, "Text")>>

----------------------------------------------------------------------------
(* Sessions that execute one line put together from the words of the       *)
(* built-in commands, other words and blanks.                              *)

MaxCmdLen == 10
Pieces == {CD_WORD, DASH_LIST, DASHDASH_LIST, CLEAR_WORD, EXIT_WORD,
           QUIT_WORD, JERM_WORD, SAVE_WORD, GOTO_WORD, <<" ">>, <<"a">>}

ParseInit == Start({FullTree}, {Root}, SessionHeights, {<<>>}) /\ pending = <<>>

ParseNext ==
    \/ \E w \in Pieces :
           /\ output = <<>> /\ history = <<>>
           /\ Len(input) + Len(w) <= MaxCmdLen
           /\ KeyChars(w)
    \/ output = <<>> /\ history = <<>> /\ KeyEnter /\ Bounded

ParseSpec == ParseInit /\ [][ParseNext]_vars

\* The intent the rule gives a line: its head is what stands before the
\* first blank of the trimmed line, its rest what follows the blanks after
\* the head
IntentByRule(line) ==
    LET t == Trim(line)
        heads == {n \in 1..Len(t) :
                     /\ \A i \in 1..n : ~IsWhitespace(t[i])
                     /\ n = Len(t) \/ IsWhitespace(t[n + 1])}
        n == CHOOSE m \in heads : TRUE
        head == SubSeq(t, 1, n)
        rest == TrimStart(SubSeq(t, n + 1, Len(t)))
    IN  IF t = <<>> THEN [kind |-> "Empty", arg |-> None]
        ELSE CASE head = CD_WORD /\ rest \in {DASH_LIST, DASHDASH_LIST} ->
                      [kind |-> "CdList", arg |-> None]
               [] head = CD_WORD /\ rest \notin {DASH_LIST, DASHDASH_LIST} ->
                      [kind |-> "Cd",
                       arg |-> IF n = Len(t) THEN None ELSE Some(rest)]
               [] head = CLEAR_WORD -> [kind |-> "Clear", arg |-> None]
               [] head \in {EXIT_WORD, QUIT_WORD} ->
                      [kind |-> "Exit", arg |-> None]
               [] head = JERM_WORD /\ rest = SAVE_WORD ->
                      [kind |-> "JermSave", arg |-> None]
               [] head = JERM_WORD /\ rest = GOTO_WORD ->
                      [kind |-> "JermGoto", arg |-> None]
               [] OTHER -> [kind |-> "Shell", arg |-> t]

\* C26: parse_command gives every line the one intent of the rule, and
\* Enter acts on that intent: it opens the navigator exactly for cd -list
\* and cd --list, quits exactly for exit and quit, and empties the
\* scrollback for clear.
C26_ParseTotal ==
    /\ [](parse_command(input) = IntentByRule(input))
    /\ [][KeyEnter =>
             /\ mode' = NavigationList <=> IntentByRule(input).kind = "CdList"
             /\ should_quit' <=> IntentByRule(input).kind = "Exit"
             /\ output' = <<>> <=> IntentByRule(input).kind = "Clear"
             /\ current_dir' # current_dir
                    => IntentByRule(input).kind = "Cd"]_vars

\* C26 witness: the line ` cd  -list`, with a blank in front and two
\* between the words, has opened the navigator
C26_Witness ==
    /\ history = <<<<" ">> \o CD_WORD \o <<" ", " ">> \o DASH_LIST>>
    /\ mode = NavigationList

----------------------------------------------------------------------------
(* Sessions that save bookmarks and go to them.                            *)

\* The clock of the model stops here; every touch of a bookmark advances it
MaxClock == 5

BookLines == {LINE_JERM_SAVE, LINE_JERM_GOTO}

BookInit == Start({FullTree}, StartDirs, SessionHeights, InitStores) /\ pending = <<>>

BookNext ==
    \/ \E l \in BookLines : input = <<>> /\ KeyChars(l)
    \/ KeyEnter /\ Bounded /\ Len(history') <= MaxHist /\ now' <= MaxClock
    \/ output # <<>> /\ KeyCtrlL
    \/ \E k \in 1..3 : KeyCtrlDigit(k) /\ Bounded /\ now' <= MaxClock
    \/ GotoDown
    \/ GotoEnter /\ Bounded /\ now' <= MaxClock
    \/ GotoEsc

BookSpec == BookInit /\ [][BookNext]_vars

\* The bookmarks whose access time the step has changed
Touched == {i \in 1..Len(shortcuts) :
               /\ i <= Len(shortcuts')
               /\ shortcuts'[i].last_accessed # shortcuts[i].last_accessed}

\* C27: get_shortcuts lists every bookmark once with the access times never
\* increasing down the list, and a bookmark that has just been touched, by
\* touch_shortcut or by add_shortcut on a saved path, is the first of the
\* list.
C27_MostRecentFirst ==
    /\ [](LET l == get_shortcuts(shortcuts)
          IN  /\ Len(l) = Len(shortcuts)
              /\ \A i \in 1..Len(shortcuts) : \E j \in 1..Len(l) : l[j] = shortcuts[i]
              /\ \A i, j \in 1..Len(l) :
                     i < j => l[i].last_accessed >= l[j].last_accessed)
    /\ [][\A i \in Touched :
             /\ shortcuts'[i].path = shortcuts[i].path
             /\ get_shortcuts(shortcuts')[1] = shortcuts'[i]]_vars

\* C27 witness: of three bookmarks the one saved first, which was the last
\* of the list, has been touched and is the first of the list
C27_Witness ==
    /\ Len(shortcuts) = 3
    /\ get_shortcuts(shortcuts)[1] = shortcuts[1]
    /\ shortcuts[1].created_at = 0
    /\ shortcuts[1].last_accessed > shortcuts[3].last_accessed

Paths(sc) == {sc[i].path : i \in 1..Len(sc)}

\* C28: the bookmarks keep pairwise distinct paths; no step removes a
\* bookmark or changes its path; jerm save in a bookmarked directory
\* refreshes the access time of its bookmark and adds none, and in any
\* other directory adds one bookmark.
C28_DistinctPaths ==
    /\ [](Cardinality(Paths(shortcuts)) = Len(shortcuts))
    /\ [][/\ Len(shortcuts') >= Len(shortcuts)
          /\ \A i \in 1..Len(shortcuts) : shortcuts'[i].path = shortcuts[i].path
          /\ (KeyEnter /\ parse_command(input).kind = "JermSave") =>
                 IF current_dir \in Paths(shortcuts)
                     THEN /\ Len(shortcuts') = Len(shortcuts)
                          /\ \E i \in Touched :
                                 /\ shortcuts[i].path = current_dir
                                 /\ shortcuts'[i].last_accessed = now
                     ELSE /\ Len(shortcuts') = Len(shortcuts) + 1
                          /\ shortcuts'[Len(shortcuts')].path = current_dir]_vars

\* C28 witness: the directory of a bookmark of the store was saved again,
\* after another one was saved
C28_Witness ==
    /\ Len(shortcuts) = 3
    /\ shortcuts[1].last_accessed > shortcuts[1].created_at
    /\ output # <<>>
    /\ output[Len(output)] = SHORTCUT_SAVED \o Display(shortcuts[1].path)

\* The step is a picker confirm or a numeric shortcut that has gone to the
\* directory of a bookmark
WentThroughBookmark ==
    /\ GotoEnter \/ \E k \in 1..MaxSlot : KeyCtrlDigit(k)
    /\ Len(output') = Len(output) + 1
    /\ output'[Len(output')] = CD_PREFIX \o Display(current_dir')

\* C29: a bookmark's access time is set to the current time when a picker
\* confirm or a numeric shortcut goes to its directory; a cd and a navigator
\* confirm leave every bookmark as it was, also when they make the
\* directory of a bookmark the working directory.
C29_RefreshedThroughBookmark ==
    [][/\ WentThroughBookmark =>
              /\ current_dir' \in Paths(shortcuts)
              /\ shortcuts'[FindShortcut(shortcuts, current_dir')].last_accessed = now
              /\ now' > now
       /\ (NavEnter \/ (KeyEnter /\ parse_command(input).kind = "Cd")) =>
              shortcuts' = shortcuts]_vars

\* C29 as stated: every step that makes the directory of a bookmark the
\* working directory refreshes the access time of that bookmark
C29_RefreshedOnEveryNavigation ==
    [][(current_dir' # current_dir /\ current_dir' \in Paths(shortcuts)) =>
           shortcuts'[FindShortcut(shortcuts, current_dir')].last_accessed
               > shortcuts[FindShortcut(shortcuts, current_dir')].last_accessed]_vars

\* C29 witness: cd a has made the bookmarked directory the working
\* directory, and its bookmark has the access time it was loaded with
C29_Witness ==
    /\ history = <<LINE_CD_A>>
    /\ current_dir = DirA
    /\ shortcuts = <<NewShortcut(DirA, 0)>>

\* Sessions that type lines, execute them, recall them from the history
\* and press Ctrl+C and Ctrl+D
InterruptLines == {LINE_SHELL, LINE_CD_A, LINE_BLANK}

InterruptInit ==
    /\ Start({FullTree}, {Root}, SessionHeights, {<<NewShortcut(DirA, 0)>>})
    /\ pending = <<>>

InterruptNext ==
    \/ \E l \in InterruptLines : input = <<>> /\ KeyChars(l)
    \/ KeyEnter /\ Bounded
    \/ KeyUp
    \/ KeyDown
    \/ KeyLeft
    \/ KeyCtrlC /\ Bounded
    \/ KeyCtrlD

InterruptSpec == InterruptInit /\ [][InterruptNext]_vars

\* C33: Ctrl+C on a line that is not empty adds the prompt, the line and
\* ^C to the scrollback, empties the line, puts the cursor at 0 and ends
\* history navigation, and does not ask to quit; on an empty line it only
\* asks to quit.  Ctrl+D on a line that is not empty changes nothing.
C33_InterruptAndEndOfInput ==
    [][/\ (KeyCtrlC /\ input # <<>>) =>
              /\ output' = Append(output, prompt \o input \o <<"^", "C">>)
              /\ input' = <<>>
              /\ cursor_pos' = 0
              /\ history_index' = None
              /\ should_quit' = should_quit
              /\ UNCHANGED <<mode, current_dir, history, nav, shortcuts,
                             selected_shortcut_index>>
       /\ (KeyCtrlC /\ input = <<>>) =>
              /\ should_quit'
              /\ UNCHANGED <<mode, current_dir, history, input, cursor_pos,
                             history_index, output, nav, shortcuts,
                             selected_shortcut_index>>
       /\ (KeyCtrlD /\ input # <<>>) =>
              UNCHANGED <<mode, current_dir, history, input, cursor_pos,
                          history_index, output, nav, shortcuts,
                          selected_shortcut_index, should_quit>>]_vars

\* C33 witness: a line was executed, and the same line was interrupted
\* afterwards; the session goes on
C33_Witness ==
    /\ history = <<LINE_SHELL>>
    /\ Len(output) = 2
    /\ output[2] = prompt \o LINE_SHELL \o <<"^", "C">>
    /\ input = <<>>
    /\ cursor_pos = 0
    /\ history_index = None
    /\ ~should_quit
    /\ pc = "key"

----------------------------------------------------------------------------
(* Frames of narrow terminals: the prompt and an input line of letters,    *)
(* East-Asian wide characters and combining marks, wrapped to widths from  *)
(* one column on.                                                          *)

MaxWrapLen == 3
MaxWidth == 3
WrapChars == {"a", "宽", "U+0301"}

WrapInit == Start({FullTree}, {Root}, SessionHeights, {<<>>}) /\ pending = <<>>

WrapNext ==
    \/ \E c \in WrapChars : Len(input) < MaxWrapLen /\ KeyChar(c)
    \/ KeyHome
    \/ \E w \in 1..MaxWidth : DrawTerminal(w)

WrapSpec == WrapInit /\ [][WrapNext]_vars

RECURSIVE RowWidth(_)
\* The display width of a row
RowWidth(r) == IF r = <<>> THEN 0 ELSE CharWidth(Head(r)) + RowWidth(Tail(r))

\* The in-order split of line that starts a new row after each position of
\* cuts
SplitAt(line, cuts) ==
    LET at == [k \in 0..(Cardinality(cuts) + 1) |->
                  IF k = 0 THEN 0
                  ELSE IF k = Cardinality(cuts) + 1 THEN Len(line)
                  ELSE CHOOSE c \in cuts : Cardinality({d \in cuts : d <= c}) = k]
    IN  [k \in 1..(Cardinality(cuts) + 1) |-> SubSeq(line, at[k - 1] + 1, at[k])]

\* The numbers of rows of the in-order splits of line whose rows all fit
\* into width columns
FittingCounts(line, width) ==
    {Cardinality(cuts) + 1 :
        cuts \in {cs \in SUBSET (1..(Len(line) - 1)) :
                     \A k \in 1..(Cardinality(cs) + 1) :
                        RowWidth(SplitAt(line, cs)[k]) <= width}}

\* The line the frame shows and the rows it was wrapped into
FrameLine == prompt \o frame.input

\* The rows are the line, cut in order
RowsAreLine == Concat(frame.rows) = FrameLine

\* No row is wider than the frame, and no in-order split whose rows fit
\* has fewer rows
RowsFitMinimal ==
    /\ \A k \in 1..Len(frame.rows) : RowWidth(frame.rows[k]) <= frame.width
    /\ \A n \in FittingCounts(FrameLine, frame.width) : Len(frame.rows) <= n

\* C30: the rows wrap_line makes of a line, put together in order, are the
\* line; when no character of the line is wider than the frame, no row is
\* wider than the frame and no in-order split into rows that fit has fewer
\* rows.
C30_WrapWhenCharactersFit ==
    frame.width >= 1 =>
        /\ RowsAreLine
        /\ (\A i \in 1..Len(FrameLine) : CharWidth(FrameLine[i]) <= frame.width)
               => RowsFitMinimal

\* C30 as stated: for every line and every width from one column on, the
\* rows are the line, none is wider than the frame, and their number is the
\* least possible
C30_WrapEveryLine ==
    frame.width >= 1 => RowsAreLine /\ RowsFitMinimal

\* C30 witness: a frame two columns wide shows a letter with a combining
\* mark and a wide character, which starts a row of its own
C30_Witness ==
    /\ frame.width = 2
    /\ frame.input = <<"a", "U+0301", "宽">>
    /\ Len(frame.rows) = 4
    /\ frame.rows[3] = <<"a", "U+0301">>
    /\ frame.rows[4] = <<"宽">>

----------------------------------------------------------------------------
(* The cursor of the frame: the same input lines with the cursor moved,    *)
(* drawn on terminals of few columns and few rows.                         *)

MaxHeight == 2

CursorInit == Start({FullTree}, {Root}, SessionHeights, {<<>>}) /\ pending = <<>>

CursorNext ==
    \/ \E c \in WrapChars : Len(input) < MaxWrapLen /\ KeyChar(c)
    \/ KeyHome
    \/ \E w \in 1..MaxWidth, h \in 0..MaxHeight : DrawTerminalIn(w, h)

CursorSpec == CursorInit /\ [][CursorNext]_vars

\* The rows of the frame that show the prompt and the input
InputRows == SubSeq(frame.rows, frame.input_line_start + 1, Len(frame.rows))

\* The number of characters in the first n of the rows rs
CharsIn(rs, n) == Len(Concat(SubSeq(rs, 1, n)))

\* The row, counted from 0, of the rows rs on which the j-th character of
\* their line stands, and the columns taken before it on that row
PlacedRow(rs, j) ==
    CHOOSE r \in 0..(Len(rs) - 1) : CharsIn(rs, r) < j /\ j <= CharsIn(rs, r + 1)
PlacedCol(rs, j) ==
    LET r == PlacedRow(rs, j)
    IN  StrWidth(SubSeq(rs[r + 1], 1, j - CharsIn(rs, r) - 1))

\* The place in the line of the frame of the character the cursor is on
CursorChar == Len(prompt) + Min(frame.cursor_pos, Len(frame.input)) + 1

\* C31 as stated: on a frame of two columns or more, with the cursor on a
\* character that takes columns, the row offset and the column computed for
\* the cursor are the row and the column wrap_line has put that character
\* on.
C31_CursorAgreesWithWrap ==
    (/\ frame.width >= 2
     /\ CursorChar <= Len(FrameLine)
     /\ CharWidth(FrameLine[CursorChar]) >= 1)
        => /\ frame.cursor_line_offset = PlacedRow(InputRows, CursorChar)
           /\ frame.cursor_x_offset = PlacedCol(InputRows, CursorChar)

\* C39 as stated: on a frame of one row or more, and of two columns or
\* more, the row computed for the cursor is one of the rows of the prompt
\* and the input, it is inside the window, and the cursor is set.
C39_CursorDrawn ==
    (frame.width >= 2 /\ frame.height >= 1)
        => /\ frame.cursor_line_offset < Len(InputRows)
           /\ frame.cursor_line_visible < frame.height
           /\ frame.cursor_set

----------------------------------------------------------------------------
(* The side panel: the time since a bookmark was accessed, in sessions     *)
(* started any time up to two months after the bookmark was saved.         *)

Minute == 60
Hour == 60 * Minute
Day == 24 * Hour

\* The label of an age of weeks whole weeks or more, were weeks counted up
\* to the thirtieth day
time_ago_weeks_to_30_days(s, t) ==
    LET seconds == t - s.last_accessed
        days == seconds \div Day
    IN  IF seconds < 60 THEN <<"n", "o", "w">>
        ELSE IF seconds \div Minute < 60 THEN Digits(seconds \div Minute) \o <<"m">>
        ELSE IF seconds \div Hour < 24 THEN Digits(seconds \div Hour) \o <<"h">>
        ELSE IF days < 7 THEN Digits(days) \o <<"d">>
        ELSE IF days < 30 THEN Digits(days \div 7) \o <<"w">>
        ELSE Digits(days \div 30) \o <<"m", "o">>

\* Shortcut::time_ago at time t.  Durations are whole seconds here;
\* num_minutes, num_hours and num_days truncate
time_ago(s, t) ==
    LET seconds == t - s.last_accessed
        minutes == seconds \div Minute
        hours == seconds \div Hour
        days == seconds \div Day
        weeks == days \div 7
        months == days \div 30
    IN  IF seconds < 60 THEN <<"n", "o", "w">>
        ELSE IF minutes < 60 THEN Digits(minutes) \o <<"m">>
        ELSE IF hours < 24 THEN Digits(hours) \o <<"h">>
        ELSE IF days < 7 THEN Digits(days) \o <<"d">>
        ELSE IF weeks < 4 THEN Digits(weeks) \o <<"w">>
        ELSE Digits(IF months >= 1 THEN months ELSE 1) \o <<"m", "o">>

\* render_sidebar: a label for each of the first nine bookmarks of the
\* listing
DrawSidebar ==
    /\ pc = "key"
    /\ frame' = [now |-> now,
                 accessed |-> [i \in 1..Min(Len(shortcuts), MaxSlot) |->
                                  get_shortcuts(shortcuts)[i].last_accessed],
                 labels |-> [i \in 1..Min(Len(shortcuts), MaxSlot) |->
                                time_ago(get_shortcuts(shortcuts)[i], now)]]
    /\ UNCHANGED <<mode, current_dir, history, editVars, output, nav,
                   bookVars, should_quit, list_height, dirs, git_status,
                   last_git_poll, git_tx, git_rx, worker, pc, pending>>

\* The ages looked at: up to MaxUnits seconds, minutes, hours and days, and
\* each of them with 59 seconds more
MaxUnits == 61
Ages == {q * u + r : q \in 0..MaxUnits, u \in {1, Minute, Hour, Day}, r \in {0, 59}}

\* A session started in / with one bookmark that was accessed at time 0
AgeInit ==
    /\ dirs = FullTree
    /\ current_dir = Root
    /\ shortcuts = <<NewShortcut(DirA, 0)>>
    /\ now \in Ages
    /\ list_height \in SessionHeights
    /\ mode = Normal
    /\ history = <<>>
    /\ history_index = None
    /\ input = <<>>
    /\ cursor_pos = 0
    /\ output = <<>>
    /\ nav = NewNav
    /\ selected_shortcut_index = 0
    /\ should_quit = FALSE
    /\ git_status = None
    /\ last_git_poll = now
    /\ frame = NoFrame
    /\ git_rx = <<>>
    /\ worker = NewWorker
    /\ git_tx = <<UpdateStatus(current_dir, FALSE)>>
    /\ pc = "key"
    /\ pending = <<>>

AgeNext ==
    \/ DrawSidebar
    \/ KeyCtrlDigit(1) /\ Bounded

AgeSpec == AgeInit /\ [][AgeNext]_vars

\* The label the rule gives an age of sec seconds when weeks are shown up
\* to, and not including, month_days days
LabelByRule(sec, month_days) ==
    IF sec < Minute THEN <<"n", "o", "w">>
    ELSE IF sec < Hour THEN Digits(sec \div Minute) \o <<"m">>
    ELSE IF sec < Day THEN Digits(sec \div Hour) \o <<"h">>
    ELSE IF sec < 7 * Day THEN Digits(sec \div Day) \o <<"d">>
    ELSE IF sec < month_days * Day THEN Digits(sec \div (7 * Day)) \o <<"w">>
    ELSE IF sec < 30 * Day THEN <<"1", "m", "o">>
    ELSE Digits(sec \div (30 * Day)) \o <<"m", "o">>

LabelsByRule(month_days) ==
    "labels" \in DOMAIN frame =>
        \A i \in DOMAIN frame.labels :
            frame.labels[i] = LabelByRule(frame.now - frame.accessed[i], month_days)

\* C32: the label is `now` below 60 seconds, whole minutes below 60
\* minutes, whole hours below 24 hours, whole days below 7 days, whole weeks
\* from 7 days up to but not including 28 days, `1mo` from 28 days up to but
\* not including 60 days, and whole months of 30 days from there on.
C32_TimeAgo == LabelsByRule(28)

\* C32 as stated: weeks are shown up to but not including 30 days, and
\* months exactly from 30 days on
C32_TimeAgoWeeksTo30Days == LabelsByRule(30)

\* C32 witness: a bookmark accessed 28 days ago is labelled 1mo
C32_Witness ==
    /\ "labels" \in DOMAIN frame
    /\ frame.now - frame.accessed[1] = 28 * Day
    /\ frame.labels[1] = <<"1", "m", "o">>

----------------------------------------------------------------------------
(* The directory browser on terminals so low that the navigator has no     *)
(* row, or one row, for its list.                                          *)

LowHeights == {0, 1}

LowInit == Start(BrowseTrees, StartDirs, LowHeights, {<<>>}) /\ pending = <<>>

LowSpec == LowInit /\ [][NavNext]_vars

----------------------------------------------------------------------------
(* Properties of the directory browser.                                    *)

InRange(n) ==
    IF n.entries = <<>>
        THEN n.selected_index = 0
        ELSE n.selected_index \in 0..(Len(n.entries) - 1)

\* C2: whatever calls of start_navigation, move_up, move_down,
\* enter_selected and go_up have been made, the selected index is 0 for an
\* empty entry list and an index of the list otherwise, and a call of
\* refresh_entries at that point, whatever the disk now lists, leaves it so.
C2_SelectionInRange ==
    /\ InRange(nav)
    /\ \A es \in Listings(nav.current_path) : InRange(refresh_entries(nav, es))

\* C2 witness: the selection is on the last of three entries of a directory
\* that now lists fewer
C2_Witness ==
    /\ mode = NavigationList
    /\ Len(nav.entries) = 3
    /\ nav.selected_index = 2
    /\ \E es \in Listings(nav.current_path) : Len(es) < 3

\* The selection is one of the h rows shown from the scroll offset on
Visible(n, h) ==
    /\ n.scroll_offset <= n.selected_index
    /\ n.selected_index <= n.scroll_offset + h - 1

\* C3 as stated: after each call of move_up, move_down, enter_selected and
\* go_up the selection is within the visible rows.
C3_VisibleAfterEachCall ==
    [][(NavUp \/ NavDown \/ NavRight \/ NavLeft) => Visible(nav', list_height)]_vars

\* C3: move_up, enter_selected and go_up never leave the scroll offset
\* beyond the selection, move_down leaves the scroll offset as it is, and
\* the selection is within the visible rows once render_navigator has drawn
\* the frame that follows the call, that is whenever the navigator waits for
\* a key.
C3_VisibleAfterFrame ==
    /\ [](mode = NavigationList /\ pc = "key" => Visible(nav, list_height))
    /\ [][/\ (NavUp \/ NavRight \/ NavLeft) =>
                 nav'.scroll_offset <= nav'.selected_index
          /\ NavDown => nav'.scroll_offset = nav.scroll_offset]_vars

\* C3 witness: the frame drawn after move_down has scrolled the list
C3_Witness ==
    /\ mode = NavigationList
    /\ pc = "key"
    /\ nav.scroll_offset > 0
    /\ nav.selected_index = nav.scroll_offset + list_height - 1

----------------------------------------------------------------------------
(* Properties of the scripted session.                                     *)

\* The last key of the script is being handled
LastKey == Len(pending) = 1 /\ NavEnter

\* C4 as stated: the script ends in Normal mode in the directory that Right
\* descended into, with the cd line of that directory appended.
C4_EndsInSubdirectory ==
    [][LastKey =>
         /\ mode' = Normal
         /\ current_dir' = nav.current_path
         /\ output' = Append(output, CD_PREFIX \o Display(nav.current_path))]_vars

\* C4: no key of the script before the last changes the working directory
\* D; Right descends into a subdirectory of D and leaves the selection on
\* its ".." entry, so that the last Enter ends in Normal mode with D as the
\* working directory still, a second scrollback line "cd <D>" and the
\* browser in the subdirectory.
C4_EndsWhereItStarted ==
    [][/\ current_dir' = current_dir
       /\ LastKey =>
             /\ mode' = Normal
             /\ Len(output) = 1
             /\ output' = Append(output, CD_PREFIX \o Display(current_dir))
             /\ Parent(nav.current_path) = current_dir
             /\ nav.current_path \in dirs
             /\ nav.selected_index = 0]_vars

\* C4 witness: the script has been handled to its end from a directory that
\* is not the root
C4_Witness ==
    /\ pending = <<>>
    /\ pc = "key"
    /\ mode = Normal
    /\ Len(output) = 2
    /\ HasParent(current_dir)
    /\ Parent(nav.current_path) = current_dir

----------------------------------------------------------------------------
(* Properties of the session.                                              *)

Last(s) == s[Len(s)]

\* sub occurs in s
Contains(s, sub) ==
    \E i \in 0..(Len(s) - Len(sub)) : SubSeq(s, i + 1, i + Len(sub)) = sub

\* C5: the mode is Normal at the start, and it changes from Normal to
\* NavigationList only in an Enter step that executes a line classified as
\* CdList; after that step the browser shows the working directory with
\* selection and scroll offset 0.
C5_NavigatingOnlyByCdList ==
    /\ mode = Normal
    /\ [][(mode = Normal /\ mode' = NavigationList) =>
            /\ KeyEnter
            /\ parse_command(input).kind = "CdList"
            /\ nav'.current_path = current_dir'
            /\ current_dir' = current_dir
            /\ nav'.selected_index = 0
            /\ nav'.scroll_offset = 0]_vars

\* C5 witness: the navigator has just been opened a second time, after the
\* selection had been moved in the first
C5_Witness ==
    /\ mode = NavigationList
    /\ pc = "draw"
    /\ Len(output) = 2
    /\ history = <<LINE_CD_LIST>>
    /\ Len(nav.entries) >= 2
    /\ nav.current_path = current_dir
    /\ nav.selected_index = 0

\* C6: Enter in navigation mode with a selected entry appends the line
\* "cd <selected path>" to the scrollback, makes the selected entry's path
\* the working directory and returns to Normal mode; with no entries it only
\* returns to Normal mode.
C6_NavigatorConfirm ==
    [][NavEnter =>
         /\ mode' = Normal
         /\ IF nav.selected_index < Len(nav.entries)
                THEN /\ output' = Append(output,
                            CD_PREFIX \o Display(nav.entries[nav.selected_index + 1].path))
                     /\ current_dir' = nav.entries[nav.selected_index + 1].path
                ELSE UNCHANGED <<output, current_dir>>]_vars

\* C6 witness: a session without bookmarks whose only command was cd -list
\* and whose scrollback ends with the cd line of the confirmed entry
C6_Witness ==
    /\ mode = Normal
    /\ shortcuts = <<>>
    /\ history = <<LINE_CD_LIST>>
    /\ Len(output) = 2
    /\ HasSelected(nav)
    /\ nav.selected_index = 1
    /\ current_dir = Selected(nav).path
    /\ output[2] = CD_PREFIX \o Display(current_dir)

\* C7: Esc in navigation mode and Esc in bookmark selection mode return to
\* Normal mode and leave working directory, scrollback, input line, cursor,
\* history and bookmarks as they were.
C7_CancelChangesNothing ==
    [][(NavEsc \/ GotoEsc) =>
         /\ mode' = Normal
         /\ UNCHANGED <<current_dir, output, input, cursor_pos, history,
                        history_index, shortcuts>>]_vars

\* C7 witness: the navigator was left with entries to confirm and without a
\* cd line, so it was cancelled
C7_Witness ==
    /\ mode = Normal
    /\ pc = "key"
    /\ history = <<LINE_CD_LIST>>
    /\ Len(output) = 1
    /\ nav.entries # <<>>
    /\ nav.selected_index = 1

\* C8: an Enter step that executes a line classified as JermGoto enters
\* bookmark selection mode with selection 0 when there are bookmarks and
\* leaves mode and selection alone when there are none; the mode is entered
\* in no other way, so it is never active without bookmarks.
C8_PickerOnlyWithBookmarks ==
    /\ [](mode = ShortcutSelection => shortcuts # <<>>)
    /\ [][/\ (KeyEnter /\ parse_command(input).kind = "JermGoto") =>
                 IF shortcuts # <<>>
                     THEN mode' = ShortcutSelection /\ selected_shortcut_index' = 0
                     ELSE mode' = Normal /\ UNCHANGED selected_shortcut_index
          /\ (mode # ShortcutSelection /\ mode' = ShortcutSelection) =>
                 (KeyEnter /\ parse_command(input).kind = "JermGoto")]_vars

\* C8 witness: the picker has been opened again after its selection had
\* been moved
C8_Witness ==
    /\ mode = ShortcutSelection
    /\ Len(output) = 2
    /\ history = <<LINE_JERM_GOTO>>
    /\ selected_shortcut_index = 0
    /\ Len(shortcuts) >= 2

\* The position in the store of the bookmark the picker highlights
HighlightedPath == get_shortcuts(shortcuts)[selected_shortcut_index + 1].path

\* C9: Enter in bookmark selection mode returns to Normal mode; when the
\* highlighted bookmark's path is a directory it becomes the working
\* directory, "cd <path>" is appended and that bookmark alone gets the time of the
\* step as its access time, later than the one it had; otherwise a line containing "<path> no longer exists"
\* is appended and working directory and bookmarks stay as they were.
C9_PickerConfirm ==
    [][GotoEnter =>
         /\ mode' = Normal
         /\ selected_shortcut_index < Len(shortcuts)
         /\ Len(shortcuts') = Len(shortcuts)
         /\ IF IsDir(HighlightedPath)
                THEN /\ current_dir' = HighlightedPath
                     /\ output' = Append(output, CD_PREFIX \o Display(HighlightedPath))
                     /\ \A i \in 1..Len(shortcuts) :
                            IF shortcuts[i].path = HighlightedPath
                                THEN /\ shortcuts'[i].path = HighlightedPath
                                     /\ shortcuts'[i].last_accessed = now
                                     /\ shortcuts'[i].last_accessed > shortcuts[i].last_accessed
                                ELSE shortcuts'[i] = shortcuts[i]
                ELSE /\ Len(output') = Len(output) + 1
                     /\ SubSeq(output', 1, Len(output)) = output
                     /\ Contains(Last(output'),
                                 Display(HighlightedPath) \o NO_LONGER_EXISTS)
                     /\ UNCHANGED <<current_dir, shortcuts>>]_vars

\* C9 witness: the second bookmark of the list was confirmed and is now the
\* working directory and the most recent bookmark
C9_Witness ==
    /\ mode = Normal
    /\ history = <<LINE_JERM_GOTO>>
    /\ selected_shortcut_index = 1
    /\ Len(output) = 2
    /\ output[2] = CD_PREFIX \o Display(current_dir)
    /\ get_shortcuts(shortcuts)[1].path = current_dir
    /\ get_shortcuts(shortcuts)[1].last_accessed = StartClock

\* C10: Ctrl+k in Normal mode does to working directory, scrollback and
\* bookmarks what confirming the picker on index k-1 would do, keeps the
\* mode Normal and leaves input line, cursor and history alone; an empty
\* slot changes nothing.
C10_NumericShortcutAsConfirm ==
    [][\A k \in 1..MaxSlot :
          KeyCtrlDigit(k) =>
              /\ mode' = Normal
              /\ UNCHANGED <<input, cursor_pos, history, history_index>>
              /\ current_dir' = confirm_goto_effect(k - 1).current_dir
              /\ output' = confirm_goto_effect(k - 1).output
              /\ shortcuts' = confirm_goto_effect(k - 1).shortcuts
              /\ (k > Len(shortcuts) => UNCHANGED vars)]_vars

\* C10 witness: with a line typed and nothing executed yet, a numeric
\* shortcut has made the second bookmark the working directory
C10_Witness ==
    /\ mode = Normal
    /\ input = LINE_CD_A
    /\ history = <<>>
    /\ Len(shortcuts) = 2
    /\ output = <<CD_PREFIX \o Display(current_dir)>>
    /\ shortcuts[1].path = current_dir
    /\ shortcuts[1].last_accessed = StartClock

----------------------------------------------------------------------------
(* The directory browser refreshed as it stands, on a disk that changes.   *)

\* NavigationState::refresh_entries called on the browser of a session in
\* navigation mode
Refresh ==
    /\ AtKey(NavigationList)
    /\ \E es \in Listings(nav.current_path) : nav' = refresh_entries(nav, es)
    /\ UNCHANGED <<pc, pending>>
    /\ NavFrame

RefreshNext ==
    \/ NavNext
    \/ Refresh

RefreshSpec == NavInit /\ [][RefreshNext]_vars

\* C35: refresh_entries lists the directory being browsed as it is on disk
\* now, its parent entry first; it keeps the selection when that is an
\* index of the new list and puts it on the last entry otherwise, on 0 when
\* the list is empty; a directory that cannot be read is listed without
\* subdirectories; the directory browsed and the scroll offset stay.
C35_RefreshKeepsOrClamps ==
    [][Refresh =>
         /\ nav'.entries \in Listings(nav.current_path)
         /\ nav'.selected_index =
                IF nav.selected_index < Len(nav'.entries) THEN nav.selected_index
                ELSE IF nav'.entries = <<>> THEN 0
                ELSE Len(nav'.entries) - 1
         /\ ~IsDir(nav.current_path) =>
                \A i \in 1..Len(nav'.entries) :
                    nav'.entries[i].path = Parent(nav.current_path)
         /\ nav'.current_path = nav.current_path
         /\ nav'.scroll_offset = nav.scroll_offset]_vars

\* C35 witness: /a was browsed with its third entry selected on a list of
\* one row; one of its subdirectories was removed, and the refresh has put
\* the selection on the second entry, above the scroll offset
C35_Witness ==
    /\ mode = NavigationList
    /\ nav.current_path = DirA
    /\ dirs = WideTree
    /\ Len(nav.entries) = 2
    /\ nav.selected_index = 1
    /\ nav.scroll_offset = 2

----------------------------------------------------------------------------
(* Sessions on stores of up to MaxStore bookmarks that use the picker and  *)
(* every numeric shortcut.                                                 *)

SlotNext ==
    \/ PickerNext
    \/ \E k \in 1..MaxSlot : KeyCtrlDigit(k) /\ Bounded

SlotSpec == PickerInit /\ [][SlotNext]_vars

\* The scrollback lines a picker confirm or a numeric shortcut writes for
\* the bookmark s
LinesNaming(s) ==
    {CD_PREFIX \o Display(s.path),
     ERROR_PREFIX \o Display(s.path) \o NO_LONGER_EXISTS}

\* C36: get_shortcut(i) is none for i = 0, for i above 9 and for i above
\* the number of bookmarks, and the i-th bookmark of the listing otherwise;
\* a picker confirm and a numeric shortcut resolve one of the first nine
\* bookmarks of the listing, or none.
C36_NineSlots ==
    /\ [](\A i \in 0..(MaxStore + 2) :
             get_shortcut(shortcuts, i) =
                 IF i = 0 \/ i > 9 \/ i > Len(shortcuts) THEN None
                 ELSE Some(get_shortcuts(shortcuts)[i]))
    /\ [][(GotoEnter \/ \E k \in 1..MaxSlot : KeyCtrlDigit(k)) =>
             \/ output' = output /\ current_dir' = current_dir
                    /\ shortcuts' = shortcuts
             \/ \E i \in 1..Min(Len(shortcuts), 9) :
                    /\ output' \in {Append(output, l) :
                                        l \in LinesNaming(get_shortcuts(shortcuts)[i])}
                    /\ current_dir' \in {current_dir, get_shortcuts(shortcuts)[i].path}]_vars

\* C36 witness: on a store of more than nine bookmarks the ninth slot was
\* used; its directory is gone
C36_Witness ==
    /\ Len(shortcuts) > 9
    /\ output = <<ERROR_PREFIX \o Display(get_shortcuts(shortcuts)[9].path)
                      \o NO_LONGER_EXISTS>>

----------------------------------------------------------------------------
(* Sessions that go through the three modes and press, in each, the keys   *)
(* the mode handles and a key it does not.                                 *)

ModeLines == {LINE_CD_LIST, LINE_JERM_GOTO, LINE_SHELL}

ModeInit ==
    /\ Start({FullTree}, {Root}, SessionHeights,
             {<<NewShortcut(DirA, 1), NewShortcut(DirH, 0)>>})
    /\ pending = <<>>

ModeNext ==
    \/ \E l \in ModeLines : input = <<>> /\ KeyChars(l)
    \/ KeyEnter /\ Bounded
    \/ KeyUp
    \/ KeyCtrlDigit(1) /\ Bounded
    \/ KeyIgnored
    \/ NavUp
    \/ NavDown
    \/ NavRight
    \/ NavLeft
    \/ NavEnter /\ Bounded
    \/ NavEsc
    \/ NavIgnored
    \/ DrawNavigator
    \/ GotoUp
    \/ GotoDown
    \/ GotoEnter /\ Bounded
    \/ GotoEsc
    \/ GotoIgnored

ModeSpec == ModeInit /\ [][ModeNext]_vars

\* The fields of the session
sessionVars == <<mode, current_dir, history, history_index, input, cursor_pos,
                 output, nav, shortcuts, selected_shortcut_index, should_quit,
                 git_status>>

\* C38: a key handled in navigation mode or in bookmark selection mode
\* changes neither the input line, nor the edit cursor, nor the history,
\* nor the history index; a key handled in normal mode changes the browser
\* only when it is an Enter on a line that opens the browser; in bookmark
\* selection mode a key other than Up, Down, Enter and Esc changes nothing
\* of the session.
C38_ModeFrames ==
    [][/\ (pc = "key" /\ mode \in {NavigationList, ShortcutSelection}) =>
              UNCHANGED <<input, cursor_pos, history, history_index>>
       /\ (pc = "key" /\ mode = Normal /\ nav' # nav) =>
              KeyEnter /\ parse_command(input).kind = "CdList"
       /\ GotoIgnored => UNCHANGED sessionVars]_vars

\* C38 witness: the browser was opened, taken into /a and a directory
\* confirmed there; the history holds the line typed and the browser the
\* directory it showed
C38_Witness ==
    /\ mode = Normal
    /\ current_dir = DirAB
    /\ history = <<LINE_CD_LIST>>
    /\ input = <<>>
    /\ Len(output) = 2
    /\ nav.current_path = DirA
    /\ nav.selected_index = 1

----------------------------------------------------------------------------
(* The navigator view on low terminals.                                    *)

\* C34 as stated: no frame of the navigator makes adjust_scroll underflow,
\* whatever the height of the list, none included, and on a list of one row
\* or more the selection is within the visible rows once the frame is drawn.
C34_ScrollWithoutUnderflow ==
    /\ pc # "panicked"
    /\ (mode = NavigationList /\ pc = "key" /\ list_height >= 1)
           => Visible(nav, list_height)

====
